---- MODULE Spec2Model ----
(***************************************************************************)
(* Model of the rec.dtn package: the discovery state machine of Node       *)
(* (node.py) and of Broker (broker.py), the content-addressed Storage      *)
(* (storage.py), the Datastore (datastore.py) and the Executor             *)
(* (executor.py, job.py).                                                  *)
(***************************************************************************)
EXTENDS Naturals, Integers, Sequences, FiniteSets, TLC

VARIABLES
    node_type,        \* Node.node_type
    _broker_pending,   \* Node._broker_pending (None or an EID)
    _broker,           \* Node._broker (None or an EID)
    d_in,             \* the bundle given to the last _handle_discovery or _handle_data call
    d_pre,            \* the two slots as they were when that call started
    d_out,            \* the bundles that call returned
    discovered_nodes, \* Broker.discovered_nodes: node type -> set of EIDs
    _db,               \* Storage._db: the TinyDB table, rows in insertion order
    _blob_directory,  \* the files of Storage._blob_directory: filename -> file
    pend,             \* per caller: a load_data / copy_to_file call between its two phases
    last,             \* the storage call that made the last step, with its outcome
    named,            \* ghost: the bytes given to the store_data that inserted each row
    _pending_jobs,    \* Executor._pending_jobs: the deque of admitted JobInfo objects
    sched,            \* where the Executor._scheduler task stands, and the job it holds
    fs,               \* the files and directories outside the blob directory: path -> entry
    handled,          \* how many bundles the intake task has handled
    e_last            \* the Executor step that was taken last, with its outcome

nodeVars == <<node_type, _broker_pending, _broker, d_in, d_pre, d_out, discovered_nodes>>
storageVars == <<_db, _blob_directory, pend, last, named>>
executorVars == <<_pending_jobs, sched, fs, handled, e_last>>
vars == <<node_type, _broker_pending, _broker, d_in, d_pre, d_out, discovered_nodes,
          _db, _blob_directory, pend, last, named,
          _pending_jobs, sched, fs, handled, e_last>>

None == "None"

Range(s) == {s[i] : i \in DOMAIN s}

(***************************************************************************)
(* messages.py                                                             *)
(***************************************************************************)
BROKER == 1
EXECUTOR == 2
DATASTORE == 3
CLIENT == 4

BROKER_ANNOUNCE == 1
BROKER_REQUEST == 2
BROKER_ACK == 3

BROADCAST_ADDRESS == "dtn://rec.all/~"

\* BundleData with the fields the discovery handlers read or set; node_type
\* defaults to 0.
BundleData(type, source, destination, ntype) ==
    [type |-> type, source |-> source, destination |-> destination, node_type |-> ntype]

(***************************************************************************)
(* node.py: the discovery half shared by Executor, Datastore and Client    *)
(***************************************************************************)
node_id == "dtn://node/"

BrokerEIDs == {"dtn://b1/", "dtn://b2/"}

\* Sources a received bundle may carry: any broker, or the node itself.
SourceEIDs == BrokerEIDs \cup {node_id}

NonBrokerTypes == {EXECUTOR, DATASTORE, CLIENT}

DiscoveryTypes == {BROKER_ANNOUNCE, BROKER_REQUEST, BROKER_ACK}

\* The discovery bundles the intake loops hand to _handle_discovery.
DiscoveryBundles ==
    {BundleData(t, s, d, nt) :
        t \in DiscoveryTypes, s \in SourceEIDs, d \in {node_id, BROADCAST_ADDRESS},
        nt \in {0, BROKER}}

NoBundle == BundleData(0, None, None, 0)

\* Node._handle_discovery, as a function of the two slots and the bundle:
\* the new slots and the returned responses.
_handle_discovery_NoPendingCheck(ntype, pending, brk, bundle) ==
    IF bundle.type = BROKER_ANNOUNCE
    THEN IF brk = None
         THEN [broker_pending |-> bundle.source, broker |-> brk,
               responses |-> <<BundleData(BROKER_REQUEST, node_id, bundle.source, ntype)>>]
         ELSE [broker_pending |-> pending, broker |-> brk, responses |-> <<>>]
    ELSE IF bundle.type = BROKER_ACK
    THEN IF pending = bundle.source
         THEN [broker_pending |-> None, broker |-> bundle.source, responses |-> <<>>]
         ELSE [broker_pending |-> pending, broker |-> brk, responses |-> <<>>]
    ELSE [broker_pending |-> pending, broker |-> brk, responses |-> <<>>]

_handle_discovery_AckFromAny(ntype, pending, brk, bundle) ==
    IF bundle.type = BROKER_ANNOUNCE
    THEN IF pending = None /\ brk = None
         THEN [broker_pending |-> bundle.source, broker |-> brk,
               responses |-> <<BundleData(BROKER_REQUEST, node_id, bundle.source, ntype)>>]
         ELSE [broker_pending |-> pending, broker |-> brk, responses |-> <<>>]
    ELSE IF bundle.type = BROKER_ACK
    THEN [broker_pending |-> None, broker |-> bundle.source, responses |-> <<>>]
    ELSE [broker_pending |-> pending, broker |-> brk, responses |-> <<>>]

_handle_discovery_RequestToSelf(ntype, pending, brk, bundle) ==
    IF bundle.type = BROKER_ANNOUNCE
    THEN IF pending = None /\ brk = None
         THEN [broker_pending |-> bundle.source, broker |-> brk,
               responses |-> <<BundleData(BROKER_REQUEST, bundle.source, node_id, ntype)>>]
         ELSE [broker_pending |-> pending, broker |-> brk, responses |-> <<>>]
    ELSE IF bundle.type = BROKER_ACK
    THEN IF pending = bundle.source
         THEN [broker_pending |-> None, broker |-> bundle.source, responses |-> <<>>]
         ELSE [broker_pending |-> pending, broker |-> brk, responses |-> <<>>]
    ELSE [broker_pending |-> pending, broker |-> brk, responses |-> <<>>]

_handle_discovery_KeepPending(ntype, pending, brk, bundle) ==
    IF bundle.type = BROKER_ANNOUNCE
    THEN IF pending = None /\ brk = None
         THEN [broker_pending |-> bundle.source, broker |-> brk,
               responses |-> <<BundleData(BROKER_REQUEST, node_id, bundle.source, ntype)>>]
         ELSE [broker_pending |-> pending, broker |-> brk, responses |-> <<>>]
    ELSE IF bundle.type = BROKER_ACK
    THEN IF pending = bundle.source
         THEN [broker_pending |-> pending, broker |-> bundle.source, responses |-> <<>>]
         ELSE [broker_pending |-> pending, broker |-> brk, responses |-> <<>>]
    ELSE [broker_pending |-> pending, broker |-> brk, responses |-> <<>>]

_handle_discovery(ntype, pending, brk, bundle) ==
    IF bundle.type = BROKER_ANNOUNCE
    THEN IF pending = None /\ brk = None
         THEN [broker_pending |-> bundle.source, broker |-> brk,
               responses |-> <<BundleData(BROKER_REQUEST, node_id, bundle.source, ntype)>>]
         ELSE [broker_pending |-> pending, broker |-> brk, responses |-> <<>>]
    ELSE IF bundle.type = BROKER_ACK
    THEN IF pending = bundle.source
         THEN [broker_pending |-> None, broker |-> bundle.source, responses |-> <<>>]
         ELSE [broker_pending |-> pending, broker |-> brk, responses |-> <<>>]
    ELSE [broker_pending |-> pending, broker |-> brk, responses |-> <<>>]

\* A non-broker node starts with both slots empty; a Client may start with
\* the broker recorded in its context file.
NodeInit ==
    /\ node_type \in NonBrokerTypes
    /\ _broker_pending = None
    /\ _broker \in (IF node_type = CLIENT THEN BrokerEIDs \cup {None} ELSE {None})
    /\ d_in = NoBundle
    /\ d_pre = [broker_pending |-> None, broker |-> None]
    /\ d_out = <<>>
    /\ discovered_nodes = <<>>

\* One call of _handle_discovery, under the writer lock of node state.
NodeHandleDiscovery ==
    \E bundle \in DiscoveryBundles :
        LET r == _handle_discovery(node_type, _broker_pending, _broker, bundle) IN
        /\ _broker_pending' = r.broker_pending
        /\ _broker' = r.broker
        /\ d_in' = bundle
        /\ d_pre' = [broker_pending |-> _broker_pending, broker |-> _broker]
        /\ d_out' = r.responses
        /\ UNCHANGED <<node_type, discovered_nodes, storageVars, executorVars>>

(***************************************************************************)
(* storage.py                                                              *)
(***************************************************************************)
\* Names are strings, modelled as sequences of characters so that
\* str.startswith can be computed: "d", "da", "b".
Names == {<<"d">>, <<"d", "a">>, <<"b">>}

\* The strings load_data is asked for: any name, or "" (a prefix of every name).
Prefixes == Names \cup {<<>>}

\* Byte contents: b"" and b"\x01".
Bytes == {<<>>, <<1>>}

\* Rows the index may hold before store_data stops inserting new names.
MaxEntries == 2

\* sha1(data).hexdigest(), shortened to the first two hex digits: a string,
\* like a name, and one-to-one on Bytes. The digest of b"" is itself a
\* possible name.
Sha1(data) == IF data = <<>> THEN <<"d", "a">> ELSE <<"b", "f">>

Filenames == {Sha1(d) : d \in Bytes}

Callers == {"t1", "t2"}

NoError == [type |-> "ok", name |-> <<>>]
NameTakenError(name) == [type |-> "NameTakenError", name |-> name]
NoSuchNameError(name) == [type |-> "NoSuchNameError", name |-> name]

\* str.startswith
StartsWith(s, prefix) ==
    /\ Len(prefix) <= Len(s)
    /\ SubSeq(s, 1, Len(prefix)) = prefix

\* TinyDB search(Query().name == name): the matching rows, in table order.
SearchName(table, name) == SelectSeq(table, LAMBDA row : row.name = name)

SearchPrefixExact(table, prefix) == SelectSeq(table, LAMBDA row : row.name = prefix)

\* TinyDB search(Query().name.test(prefix_finder))
SearchPrefix(table, prefix) == SelectSeq(table, LAMBDA row : StartsWith(row.name, prefix))

\* TinyDB insert: a new row at the end of the table.
Insert(table, name, filename) == Append(table, [name |-> name, filename |-> filename])

\* A blob file: its content and how many times it was written since it was created.
BlobFile(data, writes) == [data |-> data, writes |-> writes]

\* open(path, "wb") and write(data): creates the file, or truncates and rewrites it.
WriteBlob(files, filename, data) ==
    IF filename \in DOMAIN files
    THEN [files EXCEPT ![filename] = BlobFile(data, @.writes + 1)]
    ELSE files @@ (filename :> BlobFile(data, 1))

\* Storage.store_data, the whole body under the writer lock.
store_data_NoNameCheck(table, files, name, data) ==
    LET filename == Sha1(data) IN
    IF filename \in DOMAIN files
    THEN [db |-> Insert(table, name, filename), blobs |-> files, err |-> NoError]
    ELSE [db |-> Insert(table, name, filename),
          blobs |-> WriteBlob(files, filename, data), err |-> NoError]

store_data_NoDedup(table, files, name, data) ==
    IF SearchName(table, name) # <<>>
    THEN [db |-> table, blobs |-> files, err |-> NameTakenError(name)]
    ELSE LET filename == Sha1(data) IN
         [db |-> Insert(table, name, filename),
          blobs |-> WriteBlob(files, filename, data), err |-> NoError]

store_data_DedupNoInsert(table, files, name, data) ==
    IF SearchName(table, name) # <<>>
    THEN [db |-> table, blobs |-> files, err |-> NameTakenError(name)]
    ELSE LET filename == Sha1(data) IN
         IF filename \in DOMAIN files
         THEN [db |-> table, blobs |-> files, err |-> NoError]
         ELSE [db |-> Insert(table, name, filename),
               blobs |-> WriteBlob(files, filename, data), err |-> NoError]

store_data(table, files, name, data) ==
    IF SearchName(table, name) # <<>>
    THEN [db |-> table, blobs |-> files, err |-> NameTakenError(name)]
    ELSE LET filename == Sha1(data) IN
         IF filename \in DOMAIN files
         THEN [db |-> Insert(table, name, filename), blobs |-> files, err |-> NoError]
         ELSE [db |-> Insert(table, name, filename),
               blobs |-> WriteBlob(files, filename, data), err |-> NoError]

\* The for loop of Storage.load_data over the rows found: the (name, data)
\* pairs read and the filenames whose open() raised FileNotFoundError.
RECURSIVE ReadEntries(_, _, _, _)
ReadEntries(entries, files, all_data, disappeared) ==
    IF entries = <<>>
    THEN [all_data |-> all_data, disappeared |-> disappeared]
    ELSE LET entry == Head(entries) IN
         IF entry.filename \in DOMAIN files
         THEN ReadEntries(Tail(entries), files,
                          Append(all_data, <<entry.name, files[entry.filename].data>>),
                          disappeared)
         ELSE ReadEntries(Tail(entries), files, all_data,
                          Append(disappeared, entry.filename))

\* Storage.load_data, the part under the reader lock.
load_data(table, files, name) ==
    ReadEntries(SearchPrefix(table, name), files, <<>>, <<>>)

\* Storage._cleanup: for each given string, TinyDB remove(Query().name == string).
RECURSIVE _cleanup(_, _)
_cleanup(table, names) ==
    IF names = <<>>
    THEN table
    ELSE _cleanup(SelectSeq(table, LAMBDA row : ~(row.name = Head(names))), Tail(names))

find_missing_PrefixMatch(table, names) ==
    IF names = {}
    THEN {}
    ELSE {name \in names : SearchPrefix(table, name) = <<>>}

\* Storage.find_missing
find_missing(table, names) ==
    IF names = {}
    THEN {}
    ELSE {name \in names : SearchName(table, name) = <<>>}

\* Storage.copy_to_file, the part under the reader lock: the error raised
\* there, the bytes copied to the destination (None when nothing was copied)
\* and missing_filename.
copy_to_file(table, files, name) ==
    LET entries == SearchName(table, name) IN
    IF entries = <<>>
    THEN [err |-> NoSuchNameError(name), copied |-> None, missing_filename |-> None]
    ELSE LET filename == entries[1].filename IN
         IF filename \in DOMAIN files
         THEN [err |-> NoError, copied |-> files[filename].data, missing_filename |-> None]
         ELSE [err |-> NoError, copied |-> None, missing_filename |-> filename]

Idle == [op |-> "idle", name |-> <<>>, disappeared |-> <<>>, all_data |-> <<>>]

\* The record of a storage call: what was called with what, and what came back.
Call(op, name, data, err, ret, disappeared, copied, missing) ==
    [op |-> op, name |-> name, data |-> data, err |-> err, ret |-> ret,
     disappeared |-> disappeared, copied |-> copied, missing |-> missing]

\* The record of a find_missing call: the names asked for and the set returned.
FindMissingReturn(names, missing) ==
    [op |-> "find_missing", name |-> <<>>, data |-> <<>>, err |-> NoError, ret |-> <<>>,
     disappeared |-> <<>>, copied |-> None, missing |-> missing, names |-> names]

NoCall == Call("none", <<>>, <<>>, NoError, <<>>, <<>>, None, {})

\* The ghost of each row's bytes, kept to the rows of the table.
NamedFor(table, old) ==
    [n \in {table[i].name : i \in DOMAIN table} |-> old[n]]

\* A fresh store: empty table, empty blob directory.
StorageInit ==
    /\ _db = <<>>
    /\ _blob_directory = <<>>
    /\ pend = [t \in Callers |-> Idle]
    /\ last = NoCall
    /\ named = <<>>

\* await storage.store_data(name, data)
StoreDataCall(t, name, data) ==
    /\ pend[t] = Idle
    /\ SearchName(_db, name) # <<>> \/ Len(_db) < MaxEntries
    /\ LET r == store_data(_db, _blob_directory, name, data) IN
       /\ _db' = r.db
       /\ _blob_directory' = r.blobs
       /\ last' = Call("store_data", name, data, r.err, <<>>, <<>>, None, {})
       /\ named' = IF r.err = NoError
                   THEN NamedFor(r.db, (name :> data) @@ named)
                   ELSE NamedFor(r.db, named)
    /\ UNCHANGED <<pend, nodeVars, executorVars>>

\* await storage.load_data(name): the read under the reader lock, taken as
\* one step (a blob file vanishes before or after it); the call returns at
\* once when no blob was missing, and otherwise goes on to _cleanup.
LoadDataCall(t, name) ==
    /\ pend[t] = Idle
    /\ LET r == load_data(_db, _blob_directory, name) IN
       IF r.disappeared = <<>>
       THEN /\ last' = Call("load_data", name, <<>>, NoError, r.all_data, <<>>, None, {})
            /\ UNCHANGED pend
       ELSE /\ pend' = [pend EXCEPT ![t] = [op |-> "load_data", name |-> name,
                                             disappeared |-> r.disappeared,
                                             all_data |-> r.all_data]]
            /\ last' = Call("load_data_read", name, <<>>, NoError, <<>>, <<>>, None, {})
    /\ UNCHANGED <<_db, _blob_directory, named, nodeVars, executorVars>>

\* The second phase of load_data: _cleanup(disappeared) under the writer
\* lock, then return all_data.
LoadDataCleanup(t) ==
    /\ pend[t].op = "load_data"
    /\ _db' = _cleanup(_db, pend[t].disappeared)
    /\ named' = NamedFor(_db', named)
    /\ last' = Call("load_data", pend[t].name, <<>>, NoError, pend[t].all_data,
                    pend[t].disappeared, None, {})
    /\ pend' = [pend EXCEPT ![t] = Idle]
    /\ UNCHANGED <<_blob_directory, nodeVars, executorVars>>

\* await storage.find_missing(names)
FindMissingCall(t, names) ==
    /\ pend[t] = Idle
    /\ last' = FindMissingReturn(names, find_missing(_db, names))
    /\ UNCHANGED <<_db, _blob_directory, pend, named, nodeVars, executorVars>>

\* await storage.copy_to_file(name, destination): the part under the reader
\* lock; the call ends there unless the blob file was missing.
CopyToFileCall(t, name) ==
    /\ pend[t] = Idle
    /\ LET r == copy_to_file(_db, _blob_directory, name) IN
       IF r.missing_filename = None
       THEN /\ last' = Call("copy_to_file", name, <<>>, r.err, <<>>, <<>>, r.copied, {})
            /\ UNCHANGED pend
       ELSE /\ pend' = [pend EXCEPT ![t] = [op |-> "copy_to_file", name |-> name,
                                             disappeared |-> <<r.missing_filename>>,
                                             all_data |-> <<>>]]
            /\ last' = Call("copy_to_file_read", name, <<>>, NoError, <<>>, <<>>, None, {})
    /\ UNCHANGED <<_db, _blob_directory, named, nodeVars, executorVars>>

\* The second phase of copy_to_file: _cleanup([missing_filename]) under the
\* writer lock, then raise NoSuchNameError.
CopyToFileCleanup(t) ==
    /\ pend[t].op = "copy_to_file"
    /\ _db' = _cleanup(_db, pend[t].disappeared)
    /\ named' = NamedFor(_db', named)
    /\ last' = Call("copy_to_file", pend[t].name, <<>>, NoSuchNameError(pend[t].name),
                    <<>>, pend[t].disappeared, None, {})
    /\ pend' = [pend EXCEPT ![t] = Idle]
    /\ UNCHANGED <<_blob_directory, nodeVars, executorVars>>

\* The environment removes a blob file from the blob directory.
EnvDeleteBlob(filename) ==
    /\ filename \in DOMAIN _blob_directory
    /\ _blob_directory' = [f \in (DOMAIN _blob_directory) \ {filename} |-> _blob_directory[f]]
    /\ last' = Call("env_delete", filename, <<>>, NoError, <<>>, <<>>, None, {})
    /\ UNCHANGED <<_db, pend, named, nodeVars, executorVars>>

(***************************************************************************)
(* job.py                                                                  *)
(***************************************************************************)
\* Capabilities (a dataclass of four integers)
Capabilities(cpu_cores, free_cpu_capacity, free_memory, free_disk_space) ==
    [cpu_cores |-> cpu_cores, free_cpu_capacity |-> free_cpu_capacity,
     free_memory |-> free_memory, free_disk_space |-> free_disk_space]

is_capable_of_CoresOnly(self, caps) ==
    self.cpu_cores >= caps.cpu_cores

\* Capabilities.is_capable_of
is_capable_of(self, caps) ==
    /\ self.cpu_cores >= caps.cpu_cores
    /\ self.free_cpu_capacity >= caps.free_cpu_capacity
    /\ self.free_memory >= caps.free_memory
    /\ self.free_disk_space >= caps.free_disk_space

\* What Capabilities.from_system() may return: an idle and a loaded machine.
SystemCapabilities == {Capabilities(1, 1, 1, 1), Capabilities(1, 0, 1, 1)}

\* JobInfo.  stdin_file, stdout_file and stderr_file are <<>> when unset:
\* the code only tests their truth value, and None and "" are both false.
\* data and named_results are dicts, kept as sequences of pairs in
\* insertion order.
JobInfo(wasm_module, capabilities, stdin_file, dirs, data, stdout_file, stderr_file, results, named_results, results_receiver) ==
    [wasm_module |-> wasm_module, capabilities |-> capabilities,
     stdin_file |-> stdin_file, dirs |-> dirs, data |-> data,
     stdout_file |-> stdout_file, stderr_file |-> stderr_file,
     results |-> results, named_results |-> named_results,
     results_receiver |-> results_receiver]

\* The method that adds the names the job publishes its results under.
required_named_data_WithNamedResults(self) ==
    {self.wasm_module}
        \cup (IF self.stdin_file # <<>> THEN {self.stdin_file} ELSE {})
        \cup {self.data[i][2] : i \in DOMAIN self.data}
        \cup {self.named_results[i][2] : i \in DOMAIN self.named_results}

\* JobInfo.required_named_data
required_named_data(self) ==
    {self.wasm_module}
        \cup (IF self.stdin_file # <<>> THEN {self.stdin_file} ELSE {})
        \cup {self.data[i][2] : i \in DOMAIN self.data}

\* Job: the metadata and the carried data, a dict name -> bytes kept as a
\* sequence of pairs in insertion order.
Job(metadata, data) == [metadata |-> metadata, data |-> data]

(***************************************************************************)
(* Paths and the file system (pathlib, shutil)                             *)
(***************************************************************************)
\* A path string is a sequence of tokens: "/" for a separator that matters
\* (a leading one), ".." and component names.  A resolved absolute path is a
\* sequence of component names, <<>> being the file system root.

\* str.lstrip("/")
RECURSIVE lstrip(_)
lstrip(p) == IF p # <<>> /\ Head(p) = "/" THEN lstrip(Tail(p)) ELSE p

\* Path.resolve on a fresh tree without symbolic links: ".." climbs and
\* stops at the root.
RECURSIVE Normalize(_, _)
Normalize(abs, p) ==
    IF p = <<>> THEN abs
    ELSE LET c == Head(p) IN
         Normalize(IF c = "/" THEN abs
                   ELSE IF c = ".."
                        THEN (IF abs = <<>> THEN <<>> ELSE SubSeq(abs, 1, Len(abs) - 1))
                        ELSE Append(abs, c),
                   Tail(p))

\* (base / p).resolve(): an absolute p replaces base.
resolve(base, p) ==
    IF p # <<>> /\ Head(p) = "/" THEN Normalize(<<>>, p) ELSE Normalize(base, p)

is_relative_to_Always(path, base) == TRUE

\* PurePath.is_relative_to
is_relative_to(path, base) == StartsWith(path, base)

\* Path.parent (the root is its own parent)
parent(path) == IF path = <<>> THEN <<>> ELSE SubSeq(path, 1, Len(path) - 1)

Dir == [kind |-> "dir", data |-> <<>>]
File(data) == [kind |-> "file", data |-> data]

OSError == [type |-> "OSError", name |-> <<>>]
ValueError == [type |-> "ValueError", name |-> <<>>]

\* The ancestors of path, itself included, below the root.
Ancestors(path) == {SubSeq(path, 1, n) : n \in 1..Len(path)}

\* Path.mkdir(parents=True, exist_ok=True): fails when the path or one of
\* its ancestors is a file.
mkdir(files, path) ==
    IF \E a \in Ancestors(path) : a \in DOMAIN files /\ files[a].kind = "file"
    THEN [fs |-> files, err |-> OSError]
    ELSE [fs |-> [a \in DOMAIN files \cup Ancestors(path) |->
                    IF a \in DOMAIN files THEN files[a] ELSE Dir],
          err |-> NoError]

\* Writing a file (open(..., "wb"), shutil.copyfile): fails on a directory
\* and when the parent directory does not exist.
WriteFile(files, path, data) ==
    IF \/ path = <<>>
       \/ (path \in DOMAIN files /\ files[path].kind = "dir")
       \/ (parent(path) # <<>> /\ parent(path) \notin DOMAIN files)
       \/ (parent(path) \in DOMAIN files /\ files[parent(path)].kind = "file")
    THEN [fs |-> files, err |-> OSError]
    ELSE [fs |-> [a \in DOMAIN files \cup {path} |->
                    IF a = path THEN File(data) ELSE files[a]],
          err |-> NoError]

\* shutil.rmtree(path, ignore_errors=True)
rmtree(files, path) ==
    [a \in {b \in DOMAIN files : ~StartsWith(b, path)} |-> files[a]]

(***************************************************************************)
(* executor.py: the sandbox of a job                                       *)
(***************************************************************************)
NoSuchFileError == [type |-> "FileNotFoundError", name |-> <<>>]
WasmSetupError == [type |-> "WasmSetupError", name |-> <<>>]
WasmTrapError == [type |-> "WasmTrapError", name |-> <<>>]

\* storage.copy_to_file(name, destination) with both of its phases and the
\* write of the destination; the state st carries the table, the files, the
\* error raised so far and the ghost set of paths made from a job's paths.
CopyTo(st, blobs, name, destination, user) ==
    LET r == copy_to_file(st.db, blobs, name) IN
    IF r.err # NoError THEN [st EXCEPT !.err = r.err]
    ELSE IF r.missing_filename # None
    THEN [st EXCEPT !.db = _cleanup(st.db, <<r.missing_filename>>),
                    !.err = NoSuchNameError(name)]
    ELSE LET w == WriteFile(st.fs, destination, r.copied) IN
         [st EXCEPT !.fs = w.fs, !.err = w.err,
                    !.touched = IF user /\ w.err = NoError
                                THEN @ \cup {destination} ELSE @]

\* path.mkdir(parents=True, exist_ok=True) on a path made from a job's path
UserMkdir(st, path) ==
    LET m == mkdir(st.fs, path) IN
    [st EXCEPT !.fs = m.fs, !.err = m.err,
               !.touched = @ \cup (DOMAIN m.fs \ DOMAIN st.fs)]

\* The loop over job.dirs, with the directory made before its path is checked.
RECURSIVE PrepareDirs_MkdirFirst(_, _, _)
PrepareDirs_MkdirFirst(st, data_dir, dirs) ==
    IF st.err # NoError \/ dirs = <<>> THEN st
    ELSE LET abs_dir_path == resolve(data_dir, lstrip(Head(dirs))) IN
         IF ~is_relative_to(abs_dir_path, data_dir)
         THEN [UserMkdir(st, abs_dir_path) EXCEPT !.err = ValueError]
         ELSE PrepareDirs_MkdirFirst(UserMkdir(st, abs_dir_path), data_dir, Tail(dirs))

\* _prepare_wasi_environment: the loop over job.dirs
RECURSIVE PrepareDirs(_, _, _)
PrepareDirs(st, data_dir, dirs) ==
    IF st.err # NoError \/ dirs = <<>> THEN st
    ELSE LET abs_dir_path == resolve(data_dir, lstrip(Head(dirs))) IN
         IF ~is_relative_to(abs_dir_path, data_dir)
         THEN [st EXCEPT !.err = ValueError]
         ELSE PrepareDirs(UserMkdir(st, abs_dir_path), data_dir, Tail(dirs))

\* _prepare_wasi_environment: the loop over job.data
RECURSIVE PrepareData(_, _, _, _)
PrepareData(st, blobs, data_dir, data) ==
    IF st.err # NoError \/ data = <<>> THEN st
    ELSE LET abs_file_path == resolve(data_dir, lstrip(Head(data)[1])) IN
         IF ~is_relative_to(abs_file_path, data_dir)
         THEN [st EXCEPT !.err = ValueError]
         ELSE LET made == UserMkdir(st, parent(abs_file_path)) IN
              IF made.err # NoError THEN made
              ELSE PrepareData(CopyTo(made, blobs, Head(data)[2], abs_file_path, TRUE),
                               blobs, data_dir, Tail(data))

\* _prepare_wasi_environment: the parent directory of stdout_file / stderr_file
PrepareOutput(st, data_dir, out_file) ==
    IF st.err # NoError \/ out_file = <<>> THEN st
    ELSE LET out_path == resolve(data_dir, lstrip(out_file)) IN
         IF ~is_relative_to(out_path, data_dir)
         THEN [st EXCEPT !.err = ValueError]
         ELSE UserMkdir(st, parent(out_path))

\* mkdir and copy_to_file on the paths the Executor chooses itself
OwnMkdir(st, path) ==
    IF st.err # NoError THEN st
    ELSE LET m == mkdir(st.fs, path) IN [st EXCEPT !.fs = m.fs, !.err = m.err]

OwnCopy(st, blobs, name, destination) ==
    IF st.err # NoError THEN st
    ELSE CopyTo(st, blobs, name, destination, FALSE)

\* Executor._prepare_wasi_environment(job, base_dir)
_prepare_wasi_environment(table, blobs, files, job, base_dir) ==
    LET data_dir == base_dir \o <<"data">>
        s0 == [db |-> table, fs |-> files, err |-> NoError, touched |-> {}]
        s1 == OwnMkdir(s0, base_dir)
        s2 == OwnCopy(s1, blobs, job.wasm_module, base_dir \o <<"module.wasm">>)
        s3 == IF job.stdin_file # <<>>
              THEN OwnCopy(s2, blobs, job.stdin_file, base_dir \o <<"stdin.bin">>)
              ELSE s2
        s4 == OwnMkdir(s3, data_dir)
        s5 == PrepareDirs(s4, data_dir, job.dirs)
        s6 == PrepareData(s5, blobs, data_dir, job.data)
        s7 == PrepareOutput(s6, data_dir, job.stdout_file)
    IN  PrepareOutput(s7, data_dir, job.stderr_file)

\* What running the module may do: how it ends, which files of its
\* preopened directory it writes, and whether reading a result back fails.
OutputPaths == {<<"out">>}
OutputBytes == <<1>>
ModuleOutcomes ==
    [kind : {"exit0", "exit1", "trap", "setup"},
     writes : SUBSET OutputPaths,
     unreadable : BOOLEAN]

IsFile(files, path) == path \in DOMAIN files /\ files[path].kind = "file"
IsDir(files, path) == path \in DOMAIN files /\ files[path].kind = "dir"

\* The files the module leaves: its stdout and stderr files and its writes
\* below the preopened directory (a write needs its directory to exist).
RECURSIVE ModuleWrites(_, _)
ModuleWrites(files, paths) ==
    IF paths = {} THEN files
    ELSE LET path == CHOOSE q \in paths : TRUE
             w == WriteFile(files, path, OutputBytes)
         IN  ModuleWrites(w.fs, paths \ {path})

\* The preparation of stdout_file / stderr_file in _run_wasi_module
\* (<<>> stands for None).
OutputFileCheck(st, out_file) ==
    IF st.err # NoError \/ out_file = <<>> THEN st
    ELSE LET m == OwnMkdir(st, parent(out_file)) IN
         IF m.err # NoError THEN m
         ELSE IF out_file \in DOMAIN m.fs /\ ~IsFile(m.fs, out_file)
              THEN [m EXCEPT !.err = ValueError]
              ELSE m

\* _run_wasi_module with _run_wasi_module_sync: the checks and the run
_run_wasi_module(files, exec_file, stdin_file, data_dir, stdout_file, stderr_file, outcome) ==
    LET s0 == [fs |-> files, err |-> NoError]
        s1 == IF ~IsFile(files, exec_file) THEN [s0 EXCEPT !.err = NoSuchFileError]
              ELSE IF stdin_file # <<>> /\ ~IsFile(files, stdin_file)
              THEN [s0 EXCEPT !.err = NoSuchFileError]
              ELSE IF data_dir \notin DOMAIN files THEN OwnMkdir(s0, data_dir)
              ELSE IF ~IsDir(files, data_dir) THEN [s0 EXCEPT !.err = OSError]
              ELSE s0
        s2 == OutputFileCheck(OutputFileCheck(s1, stdout_file), stderr_file)
        outs == {q \in {stdout_file, stderr_file} : q # <<>>}
                    \cup {data_dir \o q : q \in outcome.writes}
    IN  IF s2.err # NoError THEN s2
        ELSE IF outcome.kind = "setup" THEN [s2 EXCEPT !.err = WasmSetupError]
        ELSE IF outcome.kind = "trap"
        THEN [fs |-> ModuleWrites(s2.fs, outs), err |-> WasmTrapError]
        ELSE [fs |-> ModuleWrites(s2.fs, outs), err |-> NoError]

\* Path.relative_to
relative_to(path, base) == SubSeq(path, Len(base) + 1, Len(path))

\* The regular files found by path.rglob("*")
FilesUnder(files, path) ==
    {f \in DOMAIN files : files[f].kind = "file" /\ StartsWith(f, path) /\ f # path}

\* The bytes of a ZIP archive, given by its entries <<arcname, bytes>>.
ZipBytes(entries) == <<"zip", entries>>

\* The loop of _collect_results with escaping paths collected like the others.
RECURSIVE ZipEntries_NoEscapeCheck(_, _, _)
ZipEntries_NoEscapeCheck(files, data_dir, results) ==
    IF results = <<>> THEN {}
    ELSE LET abs_path == resolve(data_dir, lstrip(Head(results)))
             rest == ZipEntries_NoEscapeCheck(files, data_dir, Tail(results))
         IN  IF abs_path \notin DOMAIN files THEN rest
             ELSE IF IsFile(files, abs_path)
             THEN {<<abs_path, files[abs_path].data>>} \cup rest
             ELSE {<<f, files[f].data>> : f \in FilesUnder(files, abs_path)} \cup rest

\* _collect_results: the loop over job.results, giving the entries written
RECURSIVE ZipEntries(_, _, _)
ZipEntries(files, data_dir, results) ==
    IF results = <<>> THEN {}
    ELSE LET abs_path == resolve(data_dir, lstrip(Head(results)))
             rest == ZipEntries(files, data_dir, Tail(results))
         IN  IF ~is_relative_to(abs_path, data_dir) THEN rest
             ELSE IF abs_path \notin DOMAIN files THEN rest
             ELSE IF IsFile(files, abs_path)
             THEN {<<relative_to(abs_path, data_dir), files[abs_path].data>>} \cup rest
             ELSE {<<relative_to(f, data_dir), files[f].data>> :
                       f \in FilesUnder(files, abs_path)} \cup rest

NoResults == [present |-> FALSE, data |-> <<>>]

\* Executor._collect_results(job, base_dir): None without a receiver, else
\* the bytes of results.zip, written into base_dir and read back.
_collect_results(files, job, base_dir) ==
    IF job.results_receiver = None THEN [fs |-> files, results |-> NoResults]
    ELSE LET data_dir == base_dir \o <<"data">>
             zip == ZipBytes(ZipEntries(files, data_dir, job.results))
         IN  [fs |-> WriteFile(files, base_dir \o <<"results.zip">>, zip).fs,
              results |-> [present |-> TRUE, data |-> zip]]

\* results[name] = value on a dict kept as a sequence of pairs
DictPut(dict, key, value) ==
    IF \E i \in DOMAIN dict : dict[i][1] = key
    THEN [i \in DOMAIN dict |-> IF dict[i][1] = key THEN <<key, value>> ELSE dict[i]]
    ELSE Append(dict, <<key, value>>)

\* Executor._collect_named_results(job, base_dir), from the pairs still to
\* be looked at and the dict built so far
RECURSIVE CollectNamed(_, _, _, _)
CollectNamed(files, data_dir, named_results, results) ==
    IF named_results = <<>> THEN results
    ELSE LET abs_path == resolve(data_dir, lstrip(Head(named_results)[1]))
             name == Head(named_results)[2]
             rest == Tail(named_results)
         IN  IF ~is_relative_to(abs_path, data_dir)
             THEN CollectNamed(files, data_dir, rest, results)
             ELSE IF abs_path \notin DOMAIN files
             THEN CollectNamed(files, data_dir, rest, results)
             ELSE IF IsFile(files, abs_path)
             THEN CollectNamed(files, data_dir, rest,
                               DictPut(results, name, files[abs_path].data))
             ELSE CollectNamed(files, data_dir, rest,
                      DictPut(results, name,
                          ZipBytes({<<relative_to(f, parent(abs_path)), files[f].data>> :
                                        f \in FilesUnder(files, abs_path)})))

_collect_named_results(files, job, base_dir) ==
    CollectNamed(files, base_dir \o <<"data">>, job.named_results, <<>>)

(***************************************************************************)
(* executor.py: running a job                                              *)
(***************************************************************************)
\* Executor._root_dir and the directory job-<id(job)> below it
_root_dir == <<"root">>
JobDir(id) == _root_dir \o <<"job-" \o ToString(id)>>

\* Executor._run_job, the part under the state writer lock: the job
\* directory is made and the sandbox prepared.  An error raised here leaves
\* _run_job at once.
RunJobPrepare(table, blobs, files, job, job_dir) ==
    LET m == mkdir(files, job_dir) IN
    IF m.err # NoError
    THEN [db |-> table, fs |-> files, err |-> m.err, touched |-> {}]
    ELSE _prepare_wasi_environment(table, blobs, m.fs, job, job_dir)

\* The finally clause of _run_job
RemoveJobDir(files, job_dir) ==
    IF job_dir \in DOMAIN files THEN rmtree(files, job_dir) ELSE files

\* The call of _run_wasi_module in _run_job
RunModule(files, job, job_dir, outcome) ==
    LET data_dir == job_dir \o <<"data">> IN
    _run_wasi_module(files, job_dir \o <<"module.wasm">>,
                     IF job.stdin_file # <<>> THEN job_dir \o <<"stdin.bin">> ELSE <<>>,
                     data_dir,
                     IF job.stdout_file # <<>>
                         THEN resolve(data_dir, lstrip(job.stdout_file)) ELSE <<>>,
                     IF job.stderr_file # <<>>
                         THEN resolve(data_dir, lstrip(job.stderr_file)) ELSE <<>>,
                     outcome)

\* Executor._run_job after the module has run: the results are collected,
\* an exception is logged and answered with (None, {}), and the job
\* directory is removed in every case.  Reading a result that the module
\* left unreadable is what makes a collection fail.
RunJobCollect(run, job, job_dir, outcome) ==
    LET data_dir == job_dir \o <<"data">>
        collected == _collect_results(run.fs, job, job_dir)
        listed == (IF job.results_receiver # None THEN Range(job.results) ELSE {})
                      \cup {job.named_results[i][1] : i \in DOMAIN job.named_results}
        reads == \E path \in listed :
                     /\ is_relative_to(resolve(data_dir, lstrip(path)), data_dir)
                     /\ resolve(data_dir, lstrip(path)) \in DOMAIN run.fs
    IN  IF run.err # NoError
        THEN [fs |-> RemoveJobDir(run.fs, job_dir), err |-> run.err,
              results |-> NoResults, named_results |-> <<>>]
        ELSE IF outcome.unreadable /\ reads
        THEN [fs |-> RemoveJobDir(run.fs, job_dir), err |-> OSError,
              results |-> NoResults, named_results |-> <<>>]
        ELSE [fs |-> RemoveJobDir(collected.fs, job_dir), err |-> NoError,
              results |-> collected.results,
              named_results |-> _collect_named_results(collected.fs, job, job_dir)]

\* Executor._run_job from its try statement on, for one way the module may
\* end.  The run is computed once and handed on.
RunJobExecute(files, job, job_dir, outcome) ==
    CHOOSE r \in {RunJobCollect(run, job, job_dir, outcome) :
                     run \in {RunModule(files, job, job_dir, outcome)}} : TRUE

(***************************************************************************)
(* executor.py: admission and scheduling                                   *)
(***************************************************************************)
JOB_SUBMIT == 11
JOB_RESULT == 12
NDATA_PUT == 21
NDATA_GET == 22
DATASTORE_MULTICAST_ADDRESS == "dtn://rec.store/~"

\* BundleData with the fields of a job or named-data bundle
DataBundle(type, source, destination, payload, named_data) ==
    [type |-> type, source |-> source, destination |-> destination,
     payload |-> payload, named_data |-> named_data]

\* How many bundles the intake task handles
MaxBundles == 3

ModuleName == <<"b">>
InputName == <<"d", "a">>
ResultName == <<"d">>
ClientEID == "dtn://client/"

\* The jobs clients submit: one that carries its module and its input and
\* publishes results, one that carries its input but not its module, one
\* that carries its module, asks for capacity and whose dirs climb out of
\* the sandbox, and one that carries nothing and names a result.
JobCarrying ==
    Job(JobInfo(ModuleName, Capabilities(1, 0, 0, 0), <<>>, <<>>,
                <<<< <<"/", "in">>, InputName >>>>, <<"/", "log">>, <<>>,
                << <<"/", "out">> >>, <<<< <<"out">>, ResultName >>>>, ClientEID),
        << <<ModuleName, <<1>> >>, <<InputName, <<>> >> >>)
JobWaiting ==
    Job(JobInfo(ModuleName, Capabilities(1, 0, 0, 0), <<>>, <<>>,
                <<<< <<"in">>, InputName >>>>, <<>>, <<>>, <<>>, <<>>, None),
        << <<InputName, <<>> >> >>)
JobEscaping ==
    Job(JobInfo(ModuleName, Capabilities(1, 1, 0, 0), <<>>,
                << <<"tmp">>, <<"..", "..", "..", "etc">> >>, <<>>, <<>>, <<>>,
                <<>>, <<>>, None),
        << <<ModuleName, <<1>> >> >>)
JobNeeding ==
    Job(JobInfo(ModuleName, Capabilities(1, 0, 0, 0), <<>>, <<>>,
                <<<< <<"in">>, InputName >>>>, <<>>, <<>>, <<>>,
                <<<< <<"out">>, ResultName >>>>, None),
        <<>>)
SubmittedJobs == {JobCarrying, JobWaiting, JobEscaping, JobNeeding}

\* The NDATA_GET replies of a datastore: the names a bundle lists and the
\* bytes it carries for them
DeliveredData ==
    {<< <<ModuleName>>, <<1>> >>, << <<InputName>>, <<>> >>,
     << <<InputName, ModuleName>>, <<>> >>}

\* An entry of _pending_jobs: a JobInfo object, told apart by its identity
QueuedJob(id, info) == [id |-> id, info |-> info]
NoJob == [id |-> 0]

\* The scheduler task: where it stands and the job it holds
Scheduler(pc, job) == [pc |-> pc, job |-> job]

\* A notify that sends the scheduler back to its predicate wherever it
\* stands, a job run in flight included.
notify_all_WakesRunning(s) == Scheduler("check", s.job)

\* _job_ready_cv.notify_all(): a scheduler blocked in wait() goes back to
\* testing its predicate.
notify_all(s) == IF s.pc = "wait" THEN Scheduler("check", s.job) ELSE s

\* The for loop of store_data calls in _handle_job, _handle_data and
\* _store_named_results: the first error ends it.
RECURSIVE StoreAll(_, _, _)
StoreAll(table, blobs, items) ==
    IF items = <<>> THEN [db |-> table, blobs |-> blobs, err |-> NoError]
    ELSE LET r == store_data(table, blobs, Head(items)[1], Head(items)[2]) IN
         IF r.err # NoError THEN r
         ELSE StoreAll(r.db, r.blobs, Tail(items))

\* Executor._job_has_all_inputs
_job_has_all_inputs(table, job) == find_missing(table, required_named_data(job)) = {}

\* Executor._system_can_run, with the capabilities from_system() returned
_system_can_run(system, job) == is_capable_of(system, job.capabilities)

\* Executor._has_runnable_job; samples[i] is what from_system() returns when
\* the i-th pending job is looked at.
_has_runnable_job(pending, table, samples) ==
    \E i \in DOMAIN pending :
        _job_has_all_inputs(table, pending[i].info)
            /\ _system_can_run(samples[i], pending[i].info)

NoSystem == Capabilities(0, 0, 0, 0)

\* The loop that looks at the queue from its tail.
RECURSIVE PopLoop_FromTail(_, _, _, _)
PopLoop_FromTail(pending, table, samples, n) ==
    IF n = 0 THEN [pending |-> pending, job |-> NoJob, system |-> NoSystem]
    ELSE LET job == pending[Len(pending)]
             front == SubSeq(pending, 1, Len(pending) - 1)
         IN  IF _job_has_all_inputs(table, job.info)
                    /\ _system_can_run(Head(samples), job.info)
             THEN [pending |-> front, job |-> job, system |-> Head(samples)]
             ELSE PopLoop_FromTail(<<job>> \o front, table, Tail(samples), n - 1)

\* The loop that takes the first runnable job and leaves the others where
\* they are.
RECURSIVE PopLoop_KeepOrder(_, _, _, _)
PopLoop_KeepOrder(pending, table, samples, n) ==
    IF n = 0 THEN [pending |-> pending, job |-> NoJob, system |-> NoSystem]
    ELSE LET job == Head(pending) IN
         IF _job_has_all_inputs(table, job.info) /\ _system_can_run(Head(samples), job.info)
         THEN [pending |-> Tail(pending), job |-> job, system |-> Head(samples)]
         ELSE LET r == PopLoop_KeepOrder(Tail(pending), table, Tail(samples), n - 1)
              IN  [pending |-> <<job>> \o r.pending, job |-> r.job, system |-> r.system]

\* The loop that forgets the jobs it finds not runnable.
RECURSIVE PopLoop_DropRotated(_, _, _, _)
PopLoop_DropRotated(pending, table, samples, n) ==
    IF n = 0 THEN [pending |-> pending, job |-> NoJob, system |-> NoSystem]
    ELSE LET job == Head(pending) IN
         IF _job_has_all_inputs(table, job.info) /\ _system_can_run(Head(samples), job.info)
         THEN [pending |-> Tail(pending), job |-> job, system |-> Head(samples)]
         ELSE PopLoop_DropRotated(Tail(pending), table, Tail(samples), n - 1)

RECURSIVE PopLoop_NoCheck(_, _, _, _)
PopLoop_NoCheck(pending, table, samples, n) ==
    IF n = 0 THEN [pending |-> pending, job |-> NoJob, system |-> NoSystem]
    ELSE [pending |-> Tail(pending), job |-> Head(pending), system |-> Head(samples)]

\* The for loop of _pop_next_runnable_job with n rounds to go; samples are
\* the capabilities from_system() returns in those rounds.
RECURSIVE PopLoop(_, _, _, _)
PopLoop(pending, table, samples, n) ==
    IF n = 0 THEN [pending |-> pending, job |-> NoJob, system |-> NoSystem]
    ELSE LET job == Head(pending) IN
         IF _job_has_all_inputs(table, job.info) /\ _system_can_run(Head(samples), job.info)
         THEN [pending |-> Tail(pending), job |-> job, system |-> Head(samples)]
         ELSE PopLoop(Append(Tail(pending), job), table, Tail(samples), n - 1)

\* Executor._pop_next_runnable_job
_pop_next_runnable_job(pending, table, samples) ==
    PopLoop(pending, table, samples, Len(pending))

\* The record of an Executor step: the handler or scheduler step taken, the
\* job it was about, the exception that ended it, whether it notified
\* _job_ready_cv, the bundles it handed to dtnd, the capabilities sampled
\* for the job, what _run_job returned and the names of the bundle handled.
Step(op, job, err, notified, sent, system, results, named_results, named_data) ==
    [op |-> op, job |-> job, err |-> err, notified |-> notified, sent |-> sent,
     system |-> system, results |-> results, named_results |-> named_results,
     named_data |-> named_data]

NoStep == Step("none", NoJob, NoError, FALSE, <<>>, NoSystem, NoResults, <<>>, <<>>)

\* A fresh Executor: nothing pending, the scheduler about to test its
\* predicate, an empty root directory.
ExecutorInit ==
    /\ _pending_jobs = <<>>
    /\ sched = Scheduler("check", NoJob)
    /\ fs = (_root_dir :> Dir)
    /\ handled = 0
    /\ e_last = NoStep

\* _handle_bundle for a JOB_SUBMIT bundle whose payload is job: _handle_job
\* and the sending of the bundles it returns.  An exception of store_data
\* leaves _handle_job before the job is appended.
HandleJobSubmit(job) ==
    /\ handled < MaxBundles
    /\ handled' = handled + 1
    /\ LET stored == StoreAll(_db, _blob_directory, job.data)
           queued == QueuedJob(handled + 1, job.metadata)
           missing == find_missing(stored.db, required_named_data(job.metadata))
           request == DataBundle(NDATA_GET, node_id, DATASTORE_MULTICAST_ADDRESS,
                                 <<>>, missing)
       IN  /\ _db' = stored.db
           /\ _blob_directory' = stored.blobs
           /\ IF stored.err # NoError
              THEN /\ e_last' = Step("handle_job", queued, stored.err, FALSE, <<>>,
                                     NoSystem, NoResults, <<>>, <<>>)
                   /\ UNCHANGED <<_pending_jobs, sched>>
              ELSE /\ _pending_jobs' = Append(_pending_jobs, queued)
                   /\ sched' = notify_all(sched)
                   /\ e_last' = Step("handle_job", queued, NoError, TRUE,
                                     IF missing # {} THEN <<request>> ELSE <<>>,
                                     NoSystem, NoResults, <<>>, <<>>)
    /\ UNCHANGED <<fs, pend, last, named, nodeVars>>

\* _handle_bundle for an NDATA_GET bundle: _handle_data.  An exception of
\* store_data leaves it before the notify.
HandleData(named_data, payload) ==
    /\ handled < MaxBundles
    /\ handled' = handled + 1
    /\ LET stored == StoreAll(_db, _blob_directory,
                              [i \in DOMAIN named_data |-> <<named_data[i], payload>>])
       IN  /\ _db' = stored.db
           /\ _blob_directory' = stored.blobs
           /\ sched' = IF stored.err = NoError THEN notify_all(sched) ELSE sched
           /\ e_last' = Step("handle_data", NoJob, stored.err, stored.err = NoError,
                             <<>>, NoSystem, NoResults, <<>>, named_data)
    /\ UNCHANGED <<_pending_jobs, fs, pend, last, named, nodeVars>>

\* The capabilities from_system() may return while the pending jobs are
\* looked at one after the other
Samples(pending) == [1..Len(pending) -> SystemCapabilities]

\* _scheduler: the predicate loop under _job_ready_cv.  The predicate is
\* tested with the condition's lock held, so no notify falls between a
\* failed test and the wait() that follows it.
SchedulerCheck ==
    /\ sched.pc = "check"
    /\ \E samples \in Samples(_pending_jobs) :
          sched' = IF _has_runnable_job(_pending_jobs, _db, samples)
                   THEN Scheduler("pop", NoJob)
                   ELSE Scheduler("wait", NoJob)
    /\ e_last' = Step("check", NoJob, NoError, FALSE, <<>>, NoSystem, NoResults, <<>>, <<>>)
    /\ UNCHANGED <<_pending_jobs, fs, handled, storageVars, nodeVars>>

\* _scheduler: job = await self._pop_next_runnable_job(); None sends the
\* loop back to its start.
SchedulerPop ==
    /\ sched.pc = "pop"
    /\ \E samples \in Samples(_pending_jobs) :
          LET r == _pop_next_runnable_job(_pending_jobs, _db, samples) IN
          /\ _pending_jobs' = r.pending
          /\ sched' = IF r.job = NoJob THEN Scheduler("check", NoJob)
                      ELSE Scheduler("prepare", r.job)
          /\ e_last' = Step("pop", r.job, NoError, FALSE, <<>>, r.system,
                             NoResults, <<>>, <<>>)
    /\ UNCHANGED <<fs, handled, storageVars, nodeVars>>

\* _scheduler calling _run_job: the part of _run_job under the writer lock.
\* Its exception is the scheduler's to log.
SchedulerPrepare ==
    /\ sched.pc = "prepare"
    /\ LET st == RunJobPrepare(_db, _blob_directory, fs, sched.job.info,
                               JobDir(sched.job.id))
       IN  /\ _db' = st.db
           /\ fs' = st.fs
           /\ sched' = Scheduler(IF st.err = NoError THEN "run" ELSE "finally", sched.job)
           /\ e_last' = Step("prepare", sched.job, st.err, FALSE, <<>>, NoSystem,
                             NoResults, <<>>, <<>>)
    /\ UNCHANGED <<_pending_jobs, handled, _blob_directory, pend, last, named, nodeVars>>

\* A _send_results that addresses the results to the datastores.
ResultBundles_ToDatastores(job, results) ==
    IF results.present /\ job.results_receiver # None
    THEN <<DataBundle(JOB_RESULT, node_id, DATASTORE_MULTICAST_ADDRESS, results.data, {})>>
    ELSE <<>>

\* The bundles of _send_results and _send_named_results
ResultBundles(job, results) ==
    IF results.present /\ job.results_receiver # None
    THEN <<DataBundle(JOB_RESULT, node_id, job.results_receiver, results.data, {})>>
    ELSE <<>>

NamedResultBundles(named_results) ==
    [i \in DOMAIN named_results |->
        DataBundle(NDATA_PUT, node_id, DATASTORE_MULTICAST_ADDRESS,
                   named_results[i][2], {named_results[i][1]})]

\* _scheduler: the rest of _run_job, then _send_results, _store_named_results
\* and _send_named_results.  dtnd may refuse every bundle (sends = FALSE);
\* the send methods log that and go on.
SchedulerRun(outcome, sends) ==
    /\ sched.pc = "run"
    /\ \E r \in {RunJobExecute(fs, sched.job.info, JobDir(sched.job.id), outcome)} :
       \E stored \in {StoreAll(_db, _blob_directory, r.named_results)} :
           LET bundles == ResultBundles(sched.job.info, r.results)
                              \o (IF stored.err = NoError
                                  THEN NamedResultBundles(r.named_results) ELSE <<>>)
           IN  /\ fs' = r.fs
               /\ _db' = stored.db
               /\ _blob_directory' = stored.blobs
               /\ e_last' = Step("run", sched.job,
                                 IF r.err # NoError THEN r.err ELSE stored.err, FALSE,
                                 IF sends THEN bundles ELSE <<>>, NoSystem,
                                 r.results, r.named_results, <<>>)
    /\ sched' = Scheduler("finally", sched.job)
    /\ UNCHANGED <<_pending_jobs, handled, pend, last, named, nodeVars>>

\* _scheduler: the finally clause, then the next round of the loop
SchedulerNotify ==
    /\ sched.pc = "finally"
    /\ sched' = Scheduler("check", NoJob)
    /\ e_last' = Step("notify", sched.job, NoError, TRUE, <<>>, NoSystem,
                    NoResults, <<>>, <<>>)
    /\ UNCHANGED <<_pending_jobs, fs, handled, storageVars, nodeVars>>

(***************************************************************************)
(* Specifications                                                          *)
(***************************************************************************)
\* The Executor's variables where no Executor runs
NoExecutor ==
    /\ _pending_jobs = <<>>
    /\ sched = Scheduler("none", NoJob)
    /\ fs = <<>>
    /\ handled = 0
    /\ e_last = NoStep

InitNode == NodeInit /\ StorageInit /\ NoExecutor

NextNode == NodeHandleDiscovery

\* A non-broker node handling discovery bundles in any order.
SpecNode == InitNode /\ [][NextNode]_vars

InitStorage ==
    /\ StorageInit
    /\ NoExecutor
    /\ node_type = DATASTORE
    /\ _broker_pending = None
    /\ _broker = None
    /\ d_in = NoBundle
    /\ d_pre = [broker_pending |-> None, broker |-> None]
    /\ d_out = <<>>
    /\ discovered_nodes = <<>>

NextStorage ==
    \/ \E t \in Callers, name \in Names, data \in Bytes : StoreDataCall(t, name, data)
    \/ \E t \in Callers, name \in Prefixes : LoadDataCall(t, name)
    \/ \E t \in Callers : LoadDataCleanup(t)
    \/ \E t \in Callers, names \in SUBSET Names : FindMissingCall(t, names)
    \/ \E t \in Callers, name \in Names : CopyToFileCall(t, name)
    \/ \E t \in Callers : CopyToFileCleanup(t)
    \/ \E filename \in Filenames : EnvDeleteBlob(filename)

\* A Storage used by concurrent callers, with blob files that may vanish.
SpecStorage == InitStorage /\ [][NextStorage]_vars

NextStorageOps ==
    \/ \E t \in Callers, name \in Names, data \in Bytes : StoreDataCall(t, name, data)
    \/ \E t \in Callers, name \in Prefixes : LoadDataCall(t, name)
    \/ \E t \in Callers, names \in SUBSET Names : FindMissingCall(t, names)
    \/ \E t \in Callers, name \in Names : CopyToFileCall(t, name)

\* A Storage whose blob directory only the Storage itself touches.
SpecStorageOps == InitStorage /\ [][NextStorageOps]_vars

InitExecutor ==
    /\ ExecutorInit
    /\ StorageInit
    /\ node_type = EXECUTOR
    /\ _broker_pending = None
    /\ _broker = None
    /\ d_in = NoBundle
    /\ d_pre = [broker_pending |-> None, broker |-> None]
    /\ d_out = <<>>
    /\ discovered_nodes = <<>>

NextExecutor ==
    \/ \E job \in SubmittedJobs : HandleJobSubmit(job)
    \/ \E item \in DeliveredData : HandleData(item[1], item[2])
    \/ SchedulerCheck
    \/ SchedulerPop
    \/ SchedulerPrepare
    \/ \E outcome \in ModuleOutcomes, sends \in BOOLEAN : SchedulerRun(outcome, sends)
    \/ SchedulerNotify

\* An Executor: the intake task handling the bundles of clients and
\* datastores while the scheduler task runs the pending jobs.
SpecExecutor == InitExecutor /\ [][NextExecutor]_vars

\* How many paths a list of a job holds at most
MaxPaths == 2

\* The sequences over S of at most n elements
SeqsUpTo(S, n) == UNION {[1..k -> S] : k \in 0..n}

\* Paths a job may name for its sandbox: one inside it, one that climbs to a
\* file of the job directory, one that climbs out of the executor's root.
PreparePaths ==
    {<<"/", "tmp">>, <<"..", "module.wasm">>, <<"tmp", "..", "..", "..", "etc">>}

\* Paths a job may name as results: the file the module writes, a file
\* outside the sandbox, a file nobody writes.
ResultPaths == {<<"/", "out">>, <<"..", "module.wasm">>, <<"nonexistent">>}

\* Jobs that differ in dirs, data, stdout_file and stderr_file
PrepareJobs ==
    {JobInfo(ModuleName, Capabilities(1, 0, 0, 0), <<>>, dirs, data, stdout_file,
             stderr_file, <<>>, <<>>, None) :
        dirs \in SeqsUpTo(PreparePaths, MaxPaths),
        data \in {<<>>} \cup {<< <<path, InputName>> >> : path \in PreparePaths},
        stdout_file \in {<<>>} \cup PreparePaths,
        stderr_file \in {<<>>, <<"..", "module.wasm">>}}

\* Jobs that differ in results, named_results and results_receiver
CollectJobs ==
    {JobInfo(ModuleName, Capabilities(1, 0, 0, 0), <<>>, <<>>, <<>>, <<>>, <<>>,
             results, named_results, results_receiver) :
        results \in SeqsUpTo(ResultPaths, MaxPaths),
        named_results \in {<<>>} \cup {<< <<path, ResultName>> >> : path \in ResultPaths},
        results_receiver \in {None, ClientEID}}

\* The local store once the module and the input have been stored
Populated ==
    StoreAll(<<>>, <<>>, << <<ModuleName, <<1>> >>, <<InputName, <<>> >> >>)

\* An Executor whose store holds every input, with one admitted job.
InitSandbox ==
    /\ _db = Populated.db
    /\ _blob_directory = Populated.blobs
    /\ pend = [t \in Callers |-> Idle]
    /\ last = NoCall
    /\ named = <<>>
    /\ \E info \in PrepareJobs \cup CollectJobs : _pending_jobs = <<QueuedJob(1, info)>>
    /\ sched = Scheduler("check", NoJob)
    /\ fs = (_root_dir :> Dir)
    /\ handled = 0
    /\ e_last = NoStep
    /\ node_type = EXECUTOR
    /\ _broker_pending = None
    /\ _broker = None
    /\ d_in = NoBundle
    /\ d_pre = [broker_pending |-> None, broker |-> None]
    /\ d_out = <<>>
    /\ discovered_nodes = <<>>

NextSandbox ==
    \/ SchedulerCheck
    \/ SchedulerPop
    \/ SchedulerPrepare
    \/ \E outcome \in ModuleOutcomes, sends \in BOOLEAN : SchedulerRun(outcome, sends)
    \/ SchedulerNotify

\* The scheduler running one job, for every job of a family of jobs that
\* name paths inside and outside their sandbox.
SpecSandbox == InitSandbox /\ [][NextSandbox]_vars

\* The scheduler task takes a step: it is at a step of its loop other than
\* the wait() on _job_ready_cv, and moves on.
SchedulerAdvances ==
    /\ sched.pc # "wait"
    /\ \E pc \in {"check", "wait", "pop", "prepare", "run", "finally"},
          job \in {NoJob, sched.job} \cup Range(_pending_jobs) :
          sched' = Scheduler(pc, job)

\* The Executor with its scheduler task scheduled fairly: unless it is
\* blocked in wait(), the task eventually takes its next step, so a started
\* job ends.  The arrival of bundles is left to the network.
FairSpecExecutor == SpecExecutor /\ WF_sched(SchedulerAdvances)

(***************************************************************************)
(* Discovery: properties                                                   *)
(***************************************************************************)
Slots(pending, brk) == [broker_pending |-> pending, broker |-> brk]

Handled == d_in # NoBundle

\* C1: once the _broker slot of a non-broker node holds X, handling any
\* discovery bundle (announce, request or ack, from any source) leaves
\* _broker = X, leaves _broker_pending as it was (empty) and returns no bundle.
C1_AssociationMonotone ==
    (Handled /\ d_pre.broker # None) =>
        /\ _broker = d_pre.broker
        /\ _broker_pending = d_pre.broker_pending
        /\ _broker_pending = None
        /\ d_out = <<>>

\* An executor, associated through the handshake, handles an announcement of
\* another broker.
C1_Witness ==
    /\ node_type = EXECUTOR
    /\ d_pre.broker # None
    /\ d_in.type = BROKER_ANNOUNCE
    /\ d_in.source # d_pre.broker

\* C2: a node with both slots empty that handles BROKER_ANNOUNCE from X ends
\* in (X, none) and returns exactly one bundle, a BROKER_REQUEST from its own
\* id to X carrying its own node type.
C2_AnnounceStartsAssociation ==
    (d_in.type = BROKER_ANNOUNCE /\ d_pre = Slots(None, None)) =>
        /\ _broker_pending = d_in.source
        /\ _broker = None
        /\ Len(d_out) = 1
        /\ d_out[1].type = BROKER_REQUEST
        /\ d_out[1].source = node_id
        /\ d_out[1].destination = d_in.source
        /\ d_out[1].node_type = node_type

C2_Witness ==
    /\ node_type = EXECUTOR
    /\ d_in.type = BROKER_ANNOUNCE
    /\ d_in.source \in BrokerEIDs
    /\ d_pre = Slots(None, None)

\* C3: a node in (X, none) that handles BROKER_ACK from X ends in (none, X)
\* and returns no bundle.
C3_AckCompletesAssociation ==
    (/\ d_in.type = BROKER_ACK
     /\ d_pre.broker = None
     /\ d_pre.broker_pending # None
     /\ d_in.source = d_pre.broker_pending) =>
        /\ _broker_pending = None
        /\ _broker = d_in.source
        /\ d_out = <<>>

C3_Witness ==
    /\ d_in.type = BROKER_ACK
    /\ d_pre.broker = None
    /\ d_pre.broker_pending \in BrokerEIDs
    /\ d_in.source = d_pre.broker_pending

\* The discovery bundles that do not enable a transition of a node whose
\* _broker slot is empty.
C4_NotEnabling ==
    /\ d_pre.broker = None
    /\ \/ d_in.type = BROKER_ANNOUNCE /\ d_pre.broker_pending # None
       \/ d_in.type = BROKER_ACK /\ d_pre.broker_pending # None
          /\ d_in.source # d_pre.broker_pending
       \/ d_in.type = BROKER_ACK /\ d_pre.broker_pending = None

\* C4: with the _broker slot empty, an announcement while an association is
\* pending, an ack from another source than the pending one, and an ack
\* while nothing is pending all leave both slots unchanged and return no bundle.
C4_OtherBundlesIgnored ==
    C4_NotEnabling =>
        /\ _broker_pending = d_pre.broker_pending
        /\ _broker = d_pre.broker
        /\ d_out = <<>>

\* An ack from Y while the association with X # Y is pending.
C4_Witness ==
    /\ d_in.type = BROKER_ACK
    /\ d_pre.broker = None
    /\ d_pre.broker_pending \in BrokerEIDs
    /\ d_in.source \in BrokerEIDs \ {d_pre.broker_pending}

(***************************************************************************)
(* Storage: properties                                                     *)
(***************************************************************************)
UniqueNames == \A i, j \in DOMAIN _db : _db[i].name = _db[j].name => i = j

\* C5: the index never holds two rows with the same name, whatever the
\* interleaving of the callers; and a store_data for a name that is in the
\* index raises NameTakenError(name) and changes neither the index nor the
\* blob directory.
C5_NameUniqueness ==
    /\ []UniqueNames
    /\ [][(last'.op = "store_data" /\ SearchName(_db, last'.name) # <<>>) =>
            /\ last'.err = NameTakenError(last'.name)
            /\ _db' = _db
            /\ _blob_directory' = _blob_directory]_vars

\* A store_data refused for a taken name while another caller's load_data is
\* between its two phases.
C5_Witness ==
    /\ last.op = "store_data"
    /\ last.err = NameTakenError(last.name)
    /\ \E t \in Callers : pend[t] # Idle

\* C6: when load_data returns after finding blob files missing, no row of
\* the index refers to one of those files any more (so find_missing reports
\* the names of those rows), and every returned pair was read from a blob
\* that was there.
C6_LoadDataSelfHeals ==
    (last.op = "load_data" /\ last.disappeared # <<>>) =>
        /\ \A i \in DOMAIN _db : _db[i].filename \notin Range(last.disappeared)
        /\ \A k \in DOMAIN last.ret : Sha1(last.ret[k][2]) \notin Range(last.disappeared)

\* C7: copy_to_file(name, dst) on a name whose blob file is gone raises
\* NoSuchNameError(name) and leaves the name out of the index: store_data
\* for it succeeds again and find_missing({name}) = {name}.
C7_CopyRemovesStaleEntry ==
    (last.op = "copy_to_file" /\ last.disappeared # <<>>) =>
        /\ last.err = NoSuchNameError(last.name)
        /\ SearchName(_db, last.name) = <<>>
        /\ find_missing(_db, {last.name}) = {last.name}
        /\ \A data \in Bytes : store_data(_db, _blob_directory, last.name, data).err = NoError

StoredContents == {named[n] : n \in DOMAIN named}

\* C8: with store_data the only writer of the blob directory, the directory
\* holds exactly one file per distinct content stored, each written once;
\* and a store_data whose blob file exists adds the index row and leaves the
\* directory as it is.
C8_Dedup ==
    /\ [](/\ DOMAIN _blob_directory = {Sha1(data) : data \in StoredContents}
          /\ Cardinality(DOMAIN _blob_directory) = Cardinality(StoredContents)
          /\ \A f \in DOMAIN _blob_directory : _blob_directory[f].writes = 1)
    /\ [][(/\ last'.op = "store_data"
           /\ last'.err = NoError
           /\ Sha1(last'.data) \in DOMAIN _blob_directory) =>
            /\ _blob_directory' = _blob_directory
            /\ _db' = Append(_db, [name |-> last'.name, filename |-> Sha1(last'.data)])]_vars

\* Two names stored with the same bytes, one blob file.
C8_Witness ==
    /\ last.op = "store_data"
    /\ last.err = NoError
    /\ Len(_db) = 2
    /\ _db[1].name # _db[2].name
    /\ named[_db[1].name] = named[_db[2].name]
    /\ Cardinality(DOMAIN _blob_directory) = 1

\* C9: in the state a successful store_data(n, B) leaves, load_data(n)
\* returns a list that contains (n, B), and exactly [(n, B)] when no other
\* row's name starts with n; and a load_data(n) call made as the next step
\* reads a list that contains (n, B).
C9_RoundTrip ==
    /\ []((last.op = "store_data" /\ last.err = NoError) =>
            LET got == load_data(_db, _blob_directory, last.name).all_data IN
            /\ \E k \in DOMAIN got : got[k] = <<last.name, last.data>>
            /\ (\A i \in DOMAIN _db :
                    StartsWith(_db[i].name, last.name) => _db[i].name = last.name)
                   => got = << <<last.name, last.data>> >>)
    /\ [][(/\ last.op = "store_data"
           /\ last.err = NoError
           /\ last'.name = last.name
           /\ \/ last'.op = "load_data" /\ last'.disappeared = <<>>
              \/ last'.op = "load_data_read") =>
            \/ /\ last'.op = "load_data"
               /\ \E k \in DOMAIN last'.ret : last'.ret[k] = <<last.name, last.data>>
            \/ /\ last'.op = "load_data_read"
               /\ \E t \in Callers :
                     /\ pend'[t] # pend[t]
                     /\ \E k \in DOMAIN pend'[t].all_data :
                           pend'[t].all_data[k] = <<last.name, last.data>>]_vars

\* A store_data that took the dedup path, after which the prefix search
\* returns two pairs.
C9_Witness ==
    /\ last.op = "store_data"
    /\ last.err = NoError
    /\ Len(_db) = 2
    /\ _db[1].filename = _db[2].filename
    /\ Len(load_data(_db, _blob_directory, last.name).all_data) = 2

\* The rows whose name starts with prefix, by position.
Matching(prefix) == {i \in DOMAIN _db : StartsWith(_db[i].name, prefix)}

\* C10: with every blob file present, load_data(p) returns one pair for each
\* row whose name starts with p and no other pair, each with the bytes
\* stored under that name, in the order the rows were inserted.
C10_PrefixRetrieval ==
    (/\ last.op = "load_data"
     /\ last.disappeared = <<>>
     /\ \A i \in DOMAIN _db : _db[i].filename \in DOMAIN _blob_directory) =>
        /\ Len(last.ret) = Cardinality(Matching(last.name))
        /\ \E pos \in [DOMAIN last.ret -> Matching(last.name)] :
              /\ \A k, l \in DOMAIN last.ret : k < l => pos[k] < pos[l]
              /\ \A k \in DOMAIN last.ret :
                    last.ret[k] = <<_db[pos[k]].name, named[_db[pos[k]].name]>>

\* A load_data that skips the first row and returns the second.
C10_Witness ==
    /\ last.op = "load_data"
    /\ last.name # <<>>
    /\ Len(_db) = 2
    /\ \A i \in DOMAIN _db : _db[i].filename \in DOMAIN _blob_directory
    /\ Len(last.ret) = 1
    /\ last.ret[1][1] = _db[2].name

\* The names currently in the index.
StoredNames(table) == {table[i].name : i \in DOMAIN table}

\* C11: find_missing(R) is R minus the names in the index, for every set R
\* of names (the empty set included) and every content of the index, and a
\* find_missing call changes neither the index nor the blob directory.
C11_FindMissing ==
    /\ [](\A R \in SUBSET Names : find_missing(_db, R) = R \ StoredNames(_db))
    /\ [][last'.op = "find_missing" =>
            /\ last'.missing = last'.names \ StoredNames(_db)
            /\ _db' = _db
            /\ _blob_directory' = _blob_directory]_vars

\* find_missing returned for a set holding both a stored and an absent name.
C11_Witness ==
    /\ last.op = "find_missing"
    /\ last.missing # {}
    /\ last.missing # last.names
    /\ last.names \ last.missing \subseteq StoredNames(_db)

(***************************************************************************)
(* Executor: properties                                                    *)
(***************************************************************************)
\* C12: the scheduler takes a job to run only out of a pop in which the job
\* was runnable: it was pending, every name of its required_named_data() was
\* in the local store, and the capabilities sampled for it satisfied the
\* capabilities it asks for.
C12_PoppedJobRunnable ==
    [][sched'.pc = "prepare" /\ sched' # sched =>
          /\ sched.pc = "pop"
          /\ sched'.job \in Range(_pending_jobs)
          /\ sched'.job \notin Range(_pending_jobs')
          /\ required_named_data(sched'.job.info) \subseteq StoredNames(_db)
          /\ e_last'.system \in SystemCapabilities
          /\ is_capable_of(e_last'.system, sched'.job.info.capabilities)]_vars

\* A job that waited for delivered data and for capacity has been popped
\* while another job stays pending.
C12_Witness ==
    /\ e_last.op = "pop"
    /\ sched.pc = "prepare"
    /\ sched.job.info = JobEscaping.metadata
    /\ _pending_jobs # <<>>

\* C13: handling a JOB_SUBMIT bundle appends the job's JobInfo to the
\* pending queue exactly once and notifies _job_ready_cv, whatever the local
\* store holds, a name carried in Job.data that is already stored included.
C13_AdmissionAlwaysEnqueues ==
    [][e_last'.op = "handle_job" /\ handled' = handled + 1 =>
          /\ _pending_jobs' = Append(_pending_jobs, e_last'.job)
          /\ e_last'.job \notin Range(_pending_jobs)
          /\ e_last'.notified]_vars

\* C14: handling a JOB_SUBMIT bundle emits an NDATA_GET bundle exactly when
\* a required name is absent from the local store once the carried data has
\* been dealt with; then it is one bundle, addressed to the datastore
\* multicast group, naming exactly the missing required names.
C14_RequestIffMissing ==
    [][e_last'.op = "handle_job" /\ handled' = handled + 1 =>
          LET missing == required_named_data(e_last'.job.info) \ StoredNames(_db') IN
          e_last'.sent =
              IF missing # {}
              THEN <<DataBundle(NDATA_GET, node_id, DATASTORE_MULTICAST_ADDRESS,
                                <<>>, missing)>>
              ELSE <<>>]_vars

\* Job id is pending, the names of missing are the required names it lacks,
\* and every sample of the system's capabilities satisfies it.
PendingMissing(id, missing) ==
    \E q \in Range(_pending_jobs) :
        /\ q.id = id
        /\ find_missing(_db, required_named_data(q.info)) = missing
        /\ \A system \in SystemCapabilities : is_capable_of(system, q.info.capabilities)

\* The intake task has just handled an NDATA_GET bundle supplying name.
DataHandled(name) ==
    e_last.op = "handle_data" /\ name \in Range(e_last.named_data)

\* The scheduler has taken job id out of the queue to run it.
Started(id) == sched.job.id = id

\* C15: a pending job that lacks an input is eventually run once an
\* NDATA_GET bundle supplying the name it lacks has been handled, when the
\* scheduler is scheduled fairly, the system's capabilities satisfy the job
\* and every started job ends.
C15_PendingJobRuns ==
    \A id \in 1..MaxBundles : \A name \in Names :
        [](PendingMissing(id, {name}) => (<>DataHandled(name) => <>Started(id)))

(***************************************************************************)
(* Sandbox: properties                                                     *)
(***************************************************************************)
\* The sandbox directory of the job the scheduler holds
DataDirOf(job) == JobDir(job.id) \o <<"data">>

\* A path of a job that leads out of the job's sandbox directory
Escapes(data_dir, path) == ~StartsWith(resolve(data_dir, lstrip(path)), data_dir)

\* The paths of dirs, data, stdout_file and stderr_file
PreparedPaths(job) ==
    Range(job.dirs) \cup {job.data[i][1] : i \in DOMAIN job.data}
        \cup ({job.stdout_file, job.stderr_file} \ {<<>>})

\* The paths of results and named_results
CollectedPaths(job) ==
    Range(job.results) \cup {job.named_results[i][1] : i \in DOMAIN job.named_results}

\* The scheduler is taking the preparation step of the job it holds.
PrepareStep == sched.pc = "prepare" /\ e_last'.op = "prepare" /\ sched'.pc # "prepare"

\* The paths that differ between two file systems
Changed(before, after) ==
    {path \in DOMAIN after : path \notin DOMAIN before \/ after[path] # before[path]}

\* C16 as stated: whenever one of the paths in dirs, data, stdout_file or
\* stderr_file leads out of data_dir, the preparation fails with a value
\* error, and nothing outside data_dir was made or written through a path
\* of the job.
C16_EscapeRaisesValueError ==
    [][PrepareStep =>
          LET job == sched.job.info
              data_dir == DataDirOf(sched.job)
              st == RunJobPrepare(_db, _blob_directory, fs, job, JobDir(sched.job.id))
          IN  (\E path \in PreparedPaths(job) : Escapes(data_dir, path)) =>
                  /\ e_last'.err = ValueError
                  /\ \A path \in st.touched : StartsWith(path, data_dir)]_vars

\* C16, amended: whenever one of the paths in dirs, data, stdout_file or
\* stderr_file leads out of data_dir, the preparation fails: with a value
\* error, or with the error of an earlier step (a missing name, an OS
\* error) that ended it before the path was looked at.  A value error is
\* only raised for such a path.  Whether it fails or not, everything made or
\* written through a path of the job lies in data_dir, and what else changed
\* is the job directory, the module file and data_dir itself.
C16_PathEscapeDefense ==
    [][PrepareStep =>
          LET job == sched.job.info
              job_dir == JobDir(sched.job.id)
              data_dir == DataDirOf(sched.job)
              st == RunJobPrepare(_db, _blob_directory, fs, job, job_dir)
              escapes == \E path \in PreparedPaths(job) : Escapes(data_dir, path)
          IN  /\ escapes => e_last'.err \in {ValueError, OSError} \cup
                                {NoSuchNameError(name) : name \in Names}
              /\ e_last'.err = ValueError => escapes
              /\ \A path \in st.touched : StartsWith(path, data_dir)
              /\ Changed(fs, fs') \subseteq
                     st.touched \cup {job_dir, job_dir \o <<"module.wasm">>, data_dir}]_vars

\* A preparation has failed on a path that climbs out, after a directory
\* of the same job was made inside the sandbox.
C16_Witness ==
    /\ e_last.op = "prepare"
    /\ e_last.err = ValueError
    /\ e_last.job.info.dirs # <<>>
    /\ Escapes(DataDirOf(e_last.job), e_last.job.info.dirs[Len(e_last.job.info.dirs)])
    /\ (DataDirOf(e_last.job) \o <<"tmp">>) \in DOMAIN fs

\* The scheduler is taking the step that ends _run_job for the job it
\* holds: a failed preparation, or the run and the collection.
RunJobEnds == sched.pc \in {"prepare", "run"} /\ sched'.pc = "finally"

\* The job without the results and named results that lead out of data_dir
WithoutEscapingResults(job, data_dir) ==
    [job EXCEPT
        !.results = SelectSeq(job.results, LAMBDA path : ~Escapes(data_dir, path)),
        !.named_results =
            SelectSeq(job.named_results, LAMBDA pair : ~Escapes(data_dir, pair[1]))]

\* C17 as stated: a job fails whenever a path in dirs, data, stdout_file,
\* stderr_file, results or named_results leads out of data_dir.
C17_AnyEscapeRejectsJob ==
    [][RunJobEnds =>
          LET job == sched.job.info
              data_dir == DataDirOf(sched.job)
          IN  (\E path \in PreparedPaths(job) \cup CollectedPaths(job) :
                   Escapes(data_dir, path)) => e_last'.err # NoError]_vars

\* C17, amended: a job fails whenever a path in dirs, data, stdout_file or
\* stderr_file leads out of data_dir: its preparation ends with an error and
\* its module never runs.  A path in results or named_results that leads out
\* of data_dir does not fail the job: the job ends as it would without that
\* path, whatever the module does.
C17_PreparedEscapeRejectsJob ==
    [][LET job == sched.job.info
           job_dir == JobDir(sched.job.id)
           data_dir == DataDirOf(sched.job)
       IN  /\ PrepareStep /\ (\E path \in PreparedPaths(job) : Escapes(data_dir, path))
                  => e_last'.err # NoError /\ sched'.pc = "finally"
           /\ sched.pc = "run" /\ sched'.pc = "finally" =>
                  /\ \A path \in PreparedPaths(job) : ~Escapes(data_dir, path)
                  /\ \A outcome \in ModuleOutcomes :
                         RunJobExecute(fs, job, job_dir, outcome).err =
                             RunJobExecute(fs, WithoutEscapingResults(job, data_dir),
                                           job_dir, outcome).err]_vars

\* A job whose results name a path out of data_dir has run to its end
\* without an error.
C17_Witness ==
    /\ e_last.op = "run"
    /\ e_last.err = NoError
    /\ \E path \in CollectedPaths(e_last.job.info) : Escapes(DataDirOf(e_last.job), path)

\* A result path that collection has to skip: it leads out of data_dir, or
\* nothing exists there.
Skipped(files, data_dir, path) ==
    \/ Escapes(data_dir, path)
    \/ resolve(data_dir, lstrip(path)) \notin DOMAIN files

\* The job with only the results and named results that are not skipped
WithoutSkippedResults(files, job, data_dir) ==
    [job EXCEPT
        !.results = SelectSeq(job.results, LAMBDA path : ~Skipped(files, data_dir, path)),
        !.named_results =
            SelectSeq(job.named_results, LAMBDA pair : ~Skipped(files, data_dir, pair[1]))]

\* C18: when the results of a job are collected, a path of results or
\* named_results that leads out of data_dir or does not exist adds no ZIP
\* entry and no named result and raises nothing: what is collected is what
\* the job without those paths gives, every listed file inside data_dir is
\* in it, every entry is a file below data_dir, and with a receiver there
\* is a ZIP even when it is empty.
C18_SkippedResultsContributeNothing ==
    [][sched.pc = "run" /\ sched'.pc = "finally" =>
          LET job == sched.job.info
              job_dir == JobDir(sched.job.id)
              data_dir == DataDirOf(sched.job)
          IN  /\ \A outcome \in ModuleOutcomes :
                   LET run == RunModule(fs, job, job_dir, outcome)
                       kept == WithoutSkippedResults(run.fs, job, data_dir)
                       zip == _collect_results(run.fs, job, job_dir).results
                       named_results == _collect_named_results(run.fs, job, job_dir)
                   IN  /\ zip = _collect_results(run.fs, kept, job_dir).results
                       /\ named_results = _collect_named_results(run.fs, kept, job_dir)
                       /\ zip.present <=> job.results_receiver # None
                       /\ zip.present =>
                              /\ \A entry \in zip.data[2] :
                                     IsFile(run.fs, data_dir \o entry[1])
                              /\ \A path \in Range(kept.results) :
                                     LET abs_path == resolve(data_dir, lstrip(path)) IN
                                     IsFile(run.fs, abs_path) =>
                                         <<relative_to(abs_path, data_dir),
                                           run.fs[abs_path].data>> \in zip.data[2]
                       /\ \A i \in DOMAIN kept.named_results :
                              \E j \in DOMAIN named_results :
                                  named_results[j][1] = kept.named_results[i][2]
                       /\ Len(named_results) <= Len(kept.named_results)
              /\ e_last'.err = NoError =>
                     /\ e_last'.results.present <=> job.results_receiver # None
                     /\ \E outcome \in ModuleOutcomes :
                            LET run == RunModule(fs, job, job_dir, outcome) IN
                            /\ e_last'.results = _collect_results(run.fs, job, job_dir).results
                            /\ e_last'.named_results =
                                   _collect_named_results(run.fs, job, job_dir)]_vars

\* A job has run whose results name a path out of data_dir and then the
\* file the module wrote: the ZIP holds that file and nothing else.
C18_Witness ==
    /\ e_last.op = "run"
    /\ e_last.err = NoError
    /\ Len(e_last.job.info.results) = 2
    /\ Escapes(DataDirOf(e_last.job), e_last.job.info.results[1])
    /\ e_last.results = [present |-> TRUE, data |-> ZipBytes({<<<<"out">>, OutputBytes>>})]

\* C19: when _run_job ends for a job, however it ends (the module exits
\* with 0 or not, traps, cannot be set up, the collection fails, or the
\* preparation of the sandbox fails), the job's directory no longer exists
\* under the executor's root directory.
C19_JobDirRemoved ==
    [][RunJobEnds => JobDir(sched.job.id) \notin DOMAIN fs']_vars

\* The last step was a job failing in the scheduler's hands.
JobFailed == e_last.op \in {"prepare", "run"} /\ e_last.err # NoError

\* Job id is pending, its inputs are stored and every capability sample
\* satisfies it.
Runnable(id) ==
    \E q \in Range(_pending_jobs) :
        /\ q.id = id
        /\ _job_has_all_inputs(_db, q.info)
        /\ \A system \in SystemCapabilities : _system_can_run(system, q.info)

\* C20: the failure of a job never stops the scheduler: a failed job leaves
\* the scheduler at its finally clause, from where it signals ready_cv and
\* goes back to the head of its loop holding no job; and from then on every
\* job that is or becomes runnable is eventually taken out of the queue to
\* be run.
C20_SchedulerSurvivesFailures ==
    /\ [][/\ e_last'.op \in {"prepare", "run"} /\ e_last'.err # NoError
               => sched'.pc = "finally"
          /\ sched.pc = "finally" /\ sched' # sched
               => sched' = Scheduler("check", NoJob) /\ e_last'.notified]_vars
    /\ (JobFailed ~> sched.pc = "check")
    /\ \A id \in 1..MaxBundles : [](JobFailed => [](Runnable(id) => <>Started(id)))

\* The local store holds data under name.
Stored(table, blobs, name, data) ==
    <<name, data>> \in Range(load_data(table, blobs, name).all_data)

\* C21: when a job has run, every named result (out_name, bytes) collected
\* from it is in the local store under out_name, and an NDATA_PUT bundle
\* naming out_name and carrying the bytes goes to the datastore multicast
\* group, whatever the local store held before, out_name included.  (dtnd
\* accepting the bundles it is handed.)
C21_NamedResultsStoredAndPublished ==
    [][\A outcome \in ModuleOutcomes :
          SchedulerRun(outcome, TRUE) =>
              \A i \in DOMAIN e_last'.named_results :
                  LET out_name == e_last'.named_results[i][1]
                      bytes == e_last'.named_results[i][2]
                  IN  /\ Stored(_db', _blob_directory', out_name, bytes)
                      /\ DataBundle(NDATA_PUT, node_id, DATASTORE_MULTICAST_ADDRESS,
                                    bytes, {out_name}) \in Range(e_last'.sent)]_vars

\* An intake handler or the scheduler's run step changed the local store
\* or the pending queue.
Mutates == _db' # _db \/ _blob_directory' # _blob_directory \/ _pending_jobs' # _pending_jobs

\* C25: every mutation of the pending queue or of the Executor's local store
\* is followed by a notify on the ready condition before the mutating
\* handler finishes: an intake handler that stored a name or appended a job
\* notifies in the same call, also when it ends with an error after having
\* stored some of the names, and the scheduler, once it has run a job and
\* stored its named results, notifies in its finally clause before it does
\* anything else.
C25_MutationNotified ==
    [][/\ (e_last'.op \in {"handle_job", "handle_data"} /\ Mutates) => e_last'.notified
       /\ (e_last'.op = "run" /\ Mutates) => sched'.pc = "finally"
       /\ (sched.pc = "finally" /\ sched' # sched) => e_last'.notified]_vars

\* The i-th pending job is runnable when the pop loop looks at it, the
\* system answering samples[i] then
RunnableAt(pending, table, samples, i) ==
    /\ _job_has_all_inputs(table, pending[i].info)
    /\ _system_can_run(samples[i], pending[i].info)

\* C28: _pop_next_runnable_job returns the first job of the queue, in its
\* current order, that is runnable when looked at, and removes exactly that
\* job, the jobs that were before it going to the tail in their order; if no
\* job is runnable it returns none and leaves the queue as it was.  This
\* holds for every queue and local store the Executor reaches and for every
\* answer of the system.
C28_RotationRule ==
    \A samples \in Samples(_pending_jobs) :
        LET r == _pop_next_runnable_job(_pending_jobs, _db, samples)
            n == Len(_pending_jobs)
            runnable == {i \in 1..n : RunnableAt(_pending_jobs, _db, samples, i)}
        IN  IF runnable = {}
            THEN r.job = NoJob /\ r.pending = _pending_jobs
            ELSE LET k == CHOOSE i \in runnable : \A j \in runnable : i <= j IN
                 /\ r.job = _pending_jobs[k]
                 /\ r.pending = SubSeq(_pending_jobs, k + 1, n)
                                    \o SubSeq(_pending_jobs, 1, k - 1)

\* The scheduler popped the second of three pending jobs: the third is now
\* at the head and the first, not runnable, behind it.
C28_Witness ==
    /\ e_last.op = "pop"
    /\ e_last.job # NoJob
    /\ Len(_pending_jobs) = 2
    /\ _pending_jobs[1].id > e_last.job.id
    /\ _pending_jobs[2].id < e_last.job.id

\* What _pop_next_runnable_job returns when from_system() answers system
\* every time: the system does not change while the scheduler pops.
PopUnder(system) ==
    _pop_next_runnable_job(_pending_jobs, _db, [i \in DOMAIN _pending_jobs |-> system])

\* The i-th pending job is runnable while the system answers system
RunnableUnder(system, i) ==
    RunnableAt(_pending_jobs, _db, [j \in DOMAIN _pending_jobs |-> system], i)

\* C29: whenever the scheduler pops while two pending jobs A and B are both
\* runnable and A was admitted before B, the scheduler does not take B: A is
\* started before B, whatever pops and rotations came before.
C29_FifoAmongRunnable ==
    sched.pc = "pop" =>
        \A system \in SystemCapabilities :
            \A a, b \in DOMAIN _pending_jobs :
                (/\ RunnableUnder(system, a)
                 /\ RunnableUnder(system, b)
                 /\ _pending_jobs[a].id < _pending_jobs[b].id)
                    => PopUnder(system).job # _pending_jobs[b]

\* C29, amended: whenever the scheduler pops while two pending jobs A and B
\* are both runnable and A is ahead of B in the queue as it stands, the
\* scheduler does not take B, and the job it takes is runnable.  The queue
\* is in admission order only until a pop rotates a job that is not
\* runnable behind jobs admitted after it.
C29_QueueOrderAmongRunnable ==
    sched.pc = "pop" =>
        \A system \in SystemCapabilities :
            /\ \A a, b \in DOMAIN _pending_jobs :
                  (RunnableUnder(system, a) /\ RunnableUnder(system, b) /\ a < b)
                      => PopUnder(system).job # _pending_jobs[b]
            /\ \A i \in DOMAIN _pending_jobs :
                  PopUnder(system).job = _pending_jobs[i] => RunnableUnder(system, i)

\* The scheduler is about to pop from a queue that an earlier pop has
\* rotated: two jobs are runnable and the one admitted first is behind.
C29_Witness ==
    /\ sched.pc = "pop"
    /\ \E system \in SystemCapabilities :
       \E a, b \in DOMAIN _pending_jobs :
          /\ RunnableUnder(system, a)
          /\ RunnableUnder(system, b)
          /\ a < b
          /\ _pending_jobs[a].id > _pending_jobs[b].id

\* C30: an Executor runs at most one job at a time.  The scheduler takes a
\* job only out of a pop made while it holds none; it lets go of the job it
\* holds only in its finally clause, which it reaches only when _run_job has
\* failed to prepare the job or when _run_job and the publication of the
\* results have returned; and a bundle handled by the intake task while a
\* job is held leaves the scheduler where it is, although it may append to
\* the pending queue.
C30_OneJobAtATime ==
    [][/\ (sched'.job # NoJob /\ sched'.job # sched.job) =>
              (sched.pc = "pop" /\ sched.job = NoJob)
       /\ (sched.job # NoJob /\ sched'.job # sched.job) =>
              (sched.pc = "finally" /\ sched'.job = NoJob /\ e_last'.op = "notify")
       /\ (sched'.pc = "finally" /\ sched.pc # "finally") =>
              /\ sched.pc \in {"prepare", "run"}
              /\ e_last'.op = sched.pc
              /\ e_last'.job = sched.job
              /\ sched.pc = "prepare" => e_last'.err # NoError
       /\ (sched.job # NoJob /\ e_last'.op \in {"handle_job", "handle_data"}) =>
              sched' = sched]_vars

\* The intake task has just appended a job while the scheduler was running
\* another one.
C30_Witness ==
    /\ sched.pc = "run"
    /\ sched.job # NoJob
    /\ e_last.op = "handle_job"
    /\ e_last.err = NoError
    /\ e_last.job \in Range(_pending_jobs)
    /\ e_last.job # sched.job

(***************************************************************************)
(* datastore.py                                                            *)
(***************************************************************************)
NDATA_DEL == 23

\* BundleData.named_data: None, one name (a str) or a list of names
NoNamedData == [none |-> TRUE]
NamedStr(name) == [str |-> name]
NamedList(names) == [list |-> names]

\* isinstance(bundle.named_data, str): bundle.named_data = [bundle.named_data]
AsList(named_data) ==
    IF "str" \in DOMAIN named_data THEN <<named_data.str>> ELSE named_data.list

\* str(err) of a NameTakenError
ErrorString(err) == <<"name", err.name, "already taken">>

\* A BundleData a Datastore answers with: success and error are set.
ReplyBundle(type, source, destination, payload, named_data, success, error) ==
    [type |-> type, source |-> source, destination |-> destination,
     payload |-> payload, named_data |-> named_data, success |-> success,
     error |-> error]

\* The PUT loop that stops at the first name that is taken.
RECURSIVE PutLoop_StopAtTaken(_, _, _, _, _, _)
PutLoop_StopAtTaken(table, blobs, names, payload, requester, bundles) ==
    IF names = <<>>
    THEN [db |-> table, blobs |-> blobs, bundles |-> bundles]
    ELSE LET r == store_data(table, blobs, Head(names), payload) IN
         IF r.err = NoError
         THEN PutLoop_StopAtTaken(r.db, r.blobs, Tail(names), payload, requester,
                  Append(bundles, ReplyBundle(NDATA_PUT, node_id, requester, <<>>,
                                              NamedStr(Head(names)), TRUE, <<>>)))
         ELSE [db |-> r.db, blobs |-> r.blobs,
               bundles |-> Append(bundles,
                   ReplyBundle(NDATA_PUT, node_id, requester, <<>>,
                               NamedStr(Head(names)), FALSE, ErrorString(r.err)))]

\* Datastore._handle_data, case NDATA_PUT: the loop over the names
RECURSIVE PutLoop(_, _, _, _, _, _)
PutLoop(table, blobs, names, payload, requester, bundles) ==
    IF names = <<>>
    THEN [db |-> table, blobs |-> blobs, bundles |-> bundles]
    ELSE LET r == store_data(table, blobs, Head(names), payload)
             response ==
                 IF r.err = NoError
                 THEN ReplyBundle(NDATA_PUT, node_id, requester, <<>>,
                                  NamedStr(Head(names)), TRUE, <<>>)
                 ELSE ReplyBundle(NDATA_PUT, node_id, requester, <<>>,
                                  NamedStr(Head(names)), FALSE, ErrorString(r.err))
         IN  PutLoop(r.db, r.blobs, Tail(names), payload, requester,
                     Append(bundles, response))

\* The responses for the (name, data) pairs load_data returned
LoadedBundles(loaded, requester) ==
    [i \in DOMAIN loaded |->
        ReplyBundle(NDATA_GET, node_id, requester, loaded[i][2],
                    NamedStr(loaded[i][1]), TRUE, <<>>)]

\* The GET loop with an exact lookup of each name.
RECURSIVE GetLoop_ExactMatch(_, _, _, _, _)
GetLoop_ExactMatch(table, blobs, names, requester, bundles) ==
    IF names = <<>>
    THEN [db |-> table, blobs |-> blobs, bundles |-> bundles]
    ELSE LET r == ReadEntries(SearchName(table, Head(names)), blobs, <<>>, <<>>) IN
         GetLoop_ExactMatch(_cleanup(table, r.disappeared), blobs, Tail(names), requester,
                            bundles \o LoadedBundles(r.all_data, requester))

\* Datastore._handle_data, case NDATA_GET: the loop over the names, each
\* load_data call with its _cleanup of the rows whose blob had gone
RECURSIVE GetLoop(_, _, _, _, _)
GetLoop(table, blobs, names, requester, bundles) ==
    IF names = <<>>
    THEN [db |-> table, blobs |-> blobs, bundles |-> bundles]
    ELSE LET r == load_data(table, blobs, Head(names)) IN
         GetLoop(_cleanup(table, r.disappeared), blobs, Tail(names), requester,
                 bundles \o LoadedBundles(r.all_data, requester))

\* Datastore._handle_data(bundle): the store it leaves and the bundles it
\* returns
DatastoreHandleDataOf(table, blobs, bundle) ==
    IF bundle.type = NDATA_PUT
    THEN IF bundle.named_data = NoNamedData
         THEN [db |-> table, blobs |-> blobs, bundles |-> <<>>]
         ELSE PutLoop(table, blobs, AsList(bundle.named_data), bundle.payload,
                      bundle.source, <<>>)
    ELSE IF bundle.type = NDATA_GET
    THEN IF bundle.named_data = NoNamedData
         THEN [db |-> table, blobs |-> blobs, bundles |-> <<>>]
         ELSE GetLoop(table, blobs, AsList(bundle.named_data), bundle.source, <<>>)
    ELSE [db |-> table, blobs |-> blobs, bundles |-> <<>>]

\* How many names a bundle lists at most
MaxNames == 2

\* Who sends named-data bundles to the Datastore
Requesters == {"dtn://client/", "dtn://executor/"}

\* The names a bundle with a list of names to store may list: "d", "da"
ListedNames == {<<"d">>, <<"d", "a">>}

\* The names a bundle with a list of names to load may list: "", "d"
ListedPrefixes == {<<>>, <<"d">>}

\* The named_data a bundle may carry: nothing, one name of S or a list of
\* names of L
NamedData(S, L) ==
    {NoNamedData} \cup {NamedStr(name) : name \in S}
                  \cup {NamedList(names) : names \in SeqsUpTo(L, MaxNames)}

\* The named-data bundles the Datastore receives
DatastoreBundles ==
    {DataBundle(NDATA_PUT, requester, node_id, payload, named_data) :
        requester \in Requesters, payload \in Bytes,
        named_data \in NamedData(Names, ListedNames)}
    \cup {DataBundle(NDATA_GET, requester, node_id, <<>>, named_data) :
        requester \in Requesters, named_data \in NamedData(Prefixes, ListedPrefixes)}
    \cup {DataBundle(NDATA_DEL, requester, node_id, <<>>, NamedStr(<<"d">>)) :
        requester \in Requesters}

\* Datastore._handle_bundle for a named-data bundle: _handle_data, and the
\* bundles it returns handed to dtnd.
DatastoreHandleData(bundle) ==
    /\ \E r \in {DatastoreHandleDataOf(_db, _blob_directory, bundle)} :
           /\ _db' = r.db
           /\ _blob_directory' = r.blobs
           /\ d_out' = r.bundles
    /\ d_in' = bundle
    /\ UNCHANGED <<node_type, _broker_pending, _broker, d_pre, discovered_nodes,
                   pend, last, named, executorVars>>

InitDatastore ==
    /\ StorageInit
    /\ NoExecutor
    /\ node_type = DATASTORE
    /\ _broker_pending = None
    /\ _broker = None
    /\ d_in = NoBundle
    /\ d_pre = [broker_pending |-> None, broker |-> None]
    /\ d_out = <<>>
    /\ discovered_nodes = <<>>

NextDatastore == \E bundle \in DatastoreBundles : DatastoreHandleData(bundle)

\* A Datastore handling the named-data bundles of clients and executors in
\* any order; nothing but its Storage touches the blob directory.
SpecDatastore == InitDatastore /\ [][NextDatastore]_vars

(***************************************************************************)
(* broker.py                                                               *)
(***************************************************************************)
NodeTypes == {BROKER, EXECUTOR, DATASTORE, CLIENT}

\* discovered_nodes[bundle.node_type] with a node_type the dict has no key for
KeyError == [type |-> "KeyError", name |-> <<>>]

\* Broker.discovered_nodes after __init__: one empty set per NodeType
NoneDiscovered == [t \in NodeTypes |-> {}]

\* The handler that acknowledges a request without recording the peer.
BrokerHandleDiscoveryOf_NoRecord(discovered, bundle) ==
    IF bundle.type = BROKER_REQUEST /\ bundle.node_type \in DOMAIN discovered
    THEN [discovered_nodes |-> discovered,
          reply |-> <<BundleData(BROKER_ACK, node_id, bundle.source, 0)>>,
          err |-> NoError]
    ELSE IF bundle.type = BROKER_REQUEST
    THEN [discovered_nodes |-> discovered, reply |-> <<>>, err |-> KeyError]
    ELSE [discovered_nodes |-> discovered, reply |-> <<>>, err |-> NoError]

\* Broker._handle_discovery(bundle), under the writer lock of node state
\* (taken a second time by the same task for BROKER_REQUEST): the sets it
\* leaves, the reply it returns (none: the empty sequence) and the exception
\* it ends with.
BrokerHandleDiscoveryOf(discovered, bundle) ==
    IF bundle.type = BROKER_ANNOUNCE
    THEN [discovered_nodes |-> discovered, reply |-> <<>>, err |-> NoError]
    ELSE IF bundle.type = BROKER_REQUEST
    THEN IF bundle.node_type \in DOMAIN discovered
         THEN [discovered_nodes |->
                   [discovered EXCEPT ![bundle.node_type] = @ \cup {bundle.source}],
               reply |-> <<BundleData(BROKER_ACK, node_id, bundle.source, 0)>>,
               err |-> NoError]
         ELSE [discovered_nodes |-> discovered, reply |-> <<>>, err |-> KeyError]
    ELSE [discovered_nodes |-> discovered, reply |-> <<>>, err |-> NoError]

\* The nodes that send BROKER_REQUEST bundles
PeerEIDs == {"dtn://p1/", "dtn://p2/"}

\* The bundles the Broker fetches: requests of peers with any node_type or
\* none, its own announcements and those of another broker, and bundles it
\* does not handle.
BrokerBundles ==
    {BundleData(BROKER_REQUEST, s, node_id, nt) : s \in PeerEIDs, nt \in NodeTypes \cup {0}}
    \cup {BundleData(BROKER_ANNOUNCE, s, BROADCAST_ADDRESS, BROKER) :
             s \in {node_id, "dtn://b2/"}}
    \cup {BundleData(t, "dtn://b2/", node_id, 0) : t \in {BROKER_ACK, NDATA_PUT}}

\* Broker._handle_bundle for a bundle that is not a JOB_QUERY: discovery
\* bundles go to _handle_discovery and its reply, if any, is sent; other
\* types are dropped.  An exception of the handler ends the handling of the
\* bundle and is logged by _handle_bundle_messages.
BrokerHandleBundle(bundle) ==
    /\ \E r \in {IF bundle.type \in BROKER_ANNOUNCE..BROKER_ACK
                 THEN BrokerHandleDiscoveryOf(discovered_nodes, bundle)
                 ELSE [discovered_nodes |-> discovered_nodes, reply |-> <<>>,
                       err |-> NoError]} :
           /\ discovered_nodes' = r.discovered_nodes
           /\ d_out' = r.reply
           /\ d_pre' = [discovered_nodes |-> discovered_nodes, err |-> r.err]
    /\ d_in' = bundle
    /\ UNCHANGED <<node_type, _broker_pending, _broker, storageVars, executorVars>>

InitBroker ==
    /\ StorageInit
    /\ NoExecutor
    /\ node_type = BROKER
    /\ _broker_pending = None
    /\ _broker = node_id
    /\ d_in = NoBundle
    /\ d_pre = [discovered_nodes |-> NoneDiscovered, err |-> NoError]
    /\ d_out = <<>>
    /\ discovered_nodes = NoneDiscovered

NextBroker == \E bundle \in BrokerBundles : BrokerHandleBundle(bundle)

\* A Broker handling the bundles it fetches, one at a time.
SpecBroker == InitBroker /\ [][NextBroker]_vars

(***************************************************************************)
(* Datastore: properties                                                   *)
(***************************************************************************)
\* names[i] is taken when the loop reaches it: a row of the table the handler
\* started from has the name, or an earlier name of the same bundle is equal.
AlreadyTaken(table, names, i) ==
    \/ SearchName(table, names[i]) # <<>>
    \/ \E j \in 1..(i - 1) : names[j] = names[i]

\* C22: a Datastore handling an NDATA_PUT bundle that lists k names (a single
\* name is k = 1) returns exactly k NDATA_PUT replies addressed to the
\* requester, the i-th for the i-th name; a reply has success = false, and
\* then a non-empty error, exactly when its name was already taken; every
\* name that was not taken is stored with the payload, whatever happened to
\* the names before it.
C22_PutRepliesPerName ==
    [][(d_in'.type = NDATA_PUT /\ d_in'.named_data # NoNamedData) =>
          LET names == AsList(d_in'.named_data) IN
          /\ Len(d_out') = Len(names)
          /\ \A i \in DOMAIN names :
                /\ d_out'[i].type = NDATA_PUT
                /\ d_out'[i].destination = d_in'.source
                /\ d_out'[i].named_data = NamedStr(names[i])
                /\ d_out'[i].success = ~AlreadyTaken(_db, names, i)
                /\ (d_out'[i].error # <<>>) = ~d_out'[i].success
                /\ ~AlreadyTaken(_db, names, i) =>
                       Stored(_db', _blob_directory', names[i], d_in'.payload)]_vars

\* A bundle of two names was handled: the first was taken and refused, the
\* second was stored.
C22_Witness ==
    /\ d_in.type = NDATA_PUT
    /\ d_in.named_data # NoNamedData
    /\ Len(d_out) = 2
    /\ ~d_out[1].success
    /\ d_out[2].success
    /\ d_out[1].named_data # d_out[2].named_data
    /\ Stored(_db, _blob_directory, d_out[2].named_data.str, d_in.payload)

\* The positions of a sequence whose element satisfies Test
Positions(seq, Test(_)) == {i \in DOMAIN seq : Test(seq[i])}

\* The bytes stored under a row of the table
RowData(blobs, row) == blobs[row.filename].data

\* C23: a Datastore handling an NDATA_GET bundle looks every requested name
\* up as a prefix: for each requested name and each stored (name, bytes) pair
\* whose name starts with it, it returns exactly one NDATA_GET bundle
\* addressed to the requester that carries the pair's name and bytes, and it
\* returns nothing else; a requested name nothing starts with yields no
\* bundle.
C23_GetRepliesPerMatch ==
    [][(d_in'.type = NDATA_GET /\ d_in'.named_data # NoNamedData) =>
          LET names == AsList(d_in'.named_data) IN
          /\ \A k \in DOMAIN _db :
                Cardinality(Positions(d_out', LAMBDA b :
                    /\ b.named_data = NamedStr(_db[k].name)
                    /\ b.payload = RowData(_blob_directory, _db[k])))
                = Cardinality(Positions(names, LAMBDA n : StartsWith(_db[k].name, n)))
          /\ \A i \in DOMAIN d_out' :
                /\ d_out'[i].type = NDATA_GET
                /\ d_out'[i].destination = d_in'.source
                /\ \E k \in DOMAIN _db :
                      /\ d_out'[i].named_data = NamedStr(_db[k].name)
                      /\ d_out'[i].payload = RowData(_blob_directory, _db[k])
          /\ (\A n \in Range(names) : SearchPrefix(_db, n) = <<>>) => d_out' = <<>>]_vars

\* One requested name was a proper prefix of a stored name and the name of
\* another: two bundles came back for it.
C23_Witness ==
    /\ d_in.type = NDATA_GET
    /\ d_in.named_data # NoNamedData
    /\ Len(AsList(d_in.named_data)) = 1
    /\ Len(d_out) = 2
    /\ d_out[1].named_data # d_out[2].named_data
    /\ d_out[1].payload # d_out[2].payload

(***************************************************************************)
(* Broker: properties                                                      *)
(***************************************************************************)
\* C24: a Broker handling a BROKER_REQUEST from peer P with node type T adds
\* P to the discovered set of type T, changes no other set, and replies with
\* exactly one BROKER_ACK addressed to P; handling a BROKER_ANNOUNCE, its own
\* or another broker's, it changes no state and emits nothing.
C24_BrokerDiscovery ==
    [][/\ (d_in'.type = BROKER_REQUEST /\ d_in'.node_type \in NodeTypes) =>
             /\ discovered_nodes' =
                    [discovered_nodes EXCEPT ![d_in'.node_type] = @ \cup {d_in'.source}]
             /\ Len(d_out') = 1
             /\ d_out'[1].type = BROKER_ACK
             /\ d_out'[1].source = node_id
             /\ d_out'[1].destination = d_in'.source
       /\ d_in'.type = BROKER_ANNOUNCE =>
             /\ discovered_nodes' = discovered_nodes
             /\ UNCHANGED <<node_type, _broker_pending, _broker>>
             /\ d_out' = <<>>]_vars

\* A peer new to its type was recorded and acknowledged while another type
\* already held a different peer and went on holding only that one.
C24_Witness ==
    /\ d_in.type = BROKER_REQUEST
    /\ d_in.node_type \in NodeTypes
    /\ d_in.source \notin d_pre.discovered_nodes[d_in.node_type]
    /\ d_in.source \in discovered_nodes[d_in.node_type]
    /\ Len(d_out) = 1
    /\ \E t \in NodeTypes \ {d_in.node_type} :
          /\ discovered_nodes[t] # {}
          /\ d_in.source \notin discovered_nodes[t]

(***************************************************************************)
(* job.py: the two methods on their own                                    *)
(***************************************************************************)
\* The largest value a capability field takes
MaxCapability == 1

\* Capabilities objects with every field in 0..MaxCapability
AllCapabilities ==
    {Capabilities(c, f, m, d) :
        c \in 0..MaxCapability, f \in 0..MaxCapability,
        m \in 0..MaxCapability, d \in 0..MaxCapability}

\* A method call of job.py: the object, the argument, whether the method
\* has returned and the value it returned
MethodCall(op, self, arg, returned, ret) ==
    [op |-> op, self |-> self, arg |-> arg, returned |-> returned, ret |-> ret]

\* Every variable other than e_last, for a specification of a method
NoNode ==
    /\ StorageInit
    /\ _pending_jobs = <<>>
    /\ sched = Scheduler("none", NoJob)
    /\ fs = <<>>
    /\ handled = 0
    /\ node_type = EXECUTOR
    /\ _broker_pending = None
    /\ _broker = None
    /\ d_in = NoBundle
    /\ d_pre = [broker_pending |-> None, broker |-> None]
    /\ d_out = <<>>
    /\ discovered_nodes = <<>>

\* S and R are drawn; S.is_capable_of(R) is about to be called.
InitCapabilities ==
    /\ NoNode
    /\ \E S \in AllCapabilities, R \in AllCapabilities :
          e_last = MethodCall("is_capable_of", S, R, FALSE, FALSE)

\* self.is_capable_of(caps) returns
IsCapableOfReturns ==
    /\ ~e_last.returned
    /\ e_last' = [e_last EXCEPT !.returned = TRUE,
                                !.ret = is_capable_of(e_last.self, e_last.arg)]
    /\ UNCHANGED <<nodeVars, storageVars, _pending_jobs, sched, fs, handled>>

\* One call of Capabilities.is_capable_of for every pair of Capabilities
SpecCapabilities == InitCapabilities /\ [][IsCapableOfReturns]_vars

\* The fields of a Capabilities object
CapabilityFields == {"cpu_cores", "free_cpu_capacity", "free_memory", "free_disk_space"}

\* C26: S.is_capable_of(R) is true exactly when S is at least R in each of
\* cpu_cores, free_cpu_capacity, free_memory and free_disk_space; so
\* S.is_capable_of(S) is always true and a shortfall in any single field
\* makes the answer false.
C26_CapableIffEveryFieldSuffices ==
    e_last.returned =>
        /\ e_last.ret = (\A f \in CapabilityFields : e_last.self[f] >= e_last.arg[f])
        /\ e_last.self = e_last.arg => e_last.ret
        /\ (\E f \in CapabilityFields : e_last.self[f] < e_last.arg[f]) => ~e_last.ret

\* The call returned false for a system short of free disk space alone, and
\* with more cores than asked for.
C26_Witness ==
    /\ e_last.op = "is_capable_of"
    /\ e_last.returned
    /\ ~e_last.ret
    /\ e_last.self.free_disk_space < e_last.arg.free_disk_space
    /\ e_last.self.cpu_cores > e_last.arg.cpu_cores
    /\ \A f \in CapabilityFields \ {"free_disk_space"} : e_last.self[f] >= e_last.arg[f]

\* How many entries the data dict of a job holds at most
MaxData == 2

\* The sandbox paths a job may map named data to
DataPaths == {<<"/", "in">>, <<"/", "cfg">>, <<"/", "aux">>}

\* dicts path -> name of at most MaxData entries, as sequences of pairs
\* with distinct keys
DataDicts ==
    {d \in SeqsUpTo(DataPaths \X Names, MaxData) :
        \A i, j \in DOMAIN d : d[i][1] = d[j][1] => i = j}

\* Jobs that differ in wasm_module, stdin_file, data, results and
\* named_results; a result may be published under a name the job also reads
\* or under one it does not.
NamedDataJobs ==
    {JobInfo(wasm_module, NoSystem, stdin_file, <<<<"tmp">>>>, data, <<"/", "log">>,
             <<>>, results, named_results, None) :
        wasm_module \in Names, stdin_file \in Names \cup {<<>>}, data \in DataDicts,
        results \in {<<>>, << <<"/", "out">> >>},
        named_results \in {<<>>, << << <<"/", "out">>, ResultName >> >>}}

\* A JobInfo is drawn; its required_named_data() is about to be called.
InitJobInfo ==
    /\ NoNode
    /\ \E job \in NamedDataJobs :
          e_last = MethodCall("required_named_data", job, <<>>, FALSE, {})

\* self.required_named_data() returns
RequiredNamedDataReturns ==
    /\ ~e_last.returned
    /\ e_last' = [e_last EXCEPT !.returned = TRUE,
                                !.ret = required_named_data(e_last.self)]
    /\ UNCHANGED <<nodeVars, storageVars, _pending_jobs, sched, fs, handled>>

\* One call of JobInfo.required_named_data for every job of NamedDataJobs
SpecJobInfo == InitJobInfo /\ [][RequiredNamedDataReturns]_vars

\* The names a job reads: its module, its stdin if set, the values of data
Reads(job, name) ==
    \/ name = job.wasm_module
    \/ job.stdin_file # <<>> /\ name = job.stdin_file
    \/ \E i \in DOMAIN job.data : job.data[i][2] = name

\* C27: required_named_data() returns the set made of wasm_module, of
\* stdin_file if it is set and of the values of data, each name once;
\* sandbox paths, results and the names of named_results add nothing.
C27_RequiredNamedData ==
    e_last.returned =>
        LET job == e_last.self IN
        /\ \A name \in Names \cup DataPaths \cup Range(job.results) \cup {<<>>} :
              name \in e_last.ret <=> Reads(job, name)
        /\ e_last.ret \subseteq Names
        /\ \A i \in DOMAIN job.named_results :
              ~Reads(job, job.named_results[i][2]) =>
                  job.named_results[i][2] \notin e_last.ret

\* The method returned for a job whose module is also one of two data
\* values and whose named result goes under a name it does not read: two
\* names came back for four mentions.
C27_Witness ==
    /\ e_last.op = "required_named_data"
    /\ e_last.returned
    /\ e_last.self.stdin_file # <<>>
    /\ Len(e_last.self.data) = 2
    /\ \E i \in DOMAIN e_last.self.data : e_last.self.data[i][2] = e_last.self.wasm_module
    /\ e_last.self.named_results # <<>>
    /\ ~Reads(e_last.self, ResultName)
    /\ Cardinality(e_last.ret) = 2

(***************************************************************************)
(* storage.py: the calls step by step, with Storage._state_mutex           *)
(***************************************************************************)
\* A caller inside a Storage method: the method, where it stands, its
\* argument, what it has read so far and the sides of _state_mutex it holds.
Task(op, pc, name, data, disappeared, all_data, holds) ==
    [op |-> op, pc |-> pc, name |-> name, data |-> data, disappeared |-> disappeared,
     all_data |-> all_data, holds |-> holds]

IdleTask == Task("idle", "idle", <<>>, <<>>, <<>>, <<>>, {})

\* The callers holding the reader side, and the writer side, of _state_mutex
Readers(tasks) == {t \in DOMAIN tasks : "reader" \in tasks[t].holds}
Writers(tasks) == {t \in DOMAIN tasks : "writer" \in tasks[t].holds}

\* RWLock: the reader side is granted while no other task holds the writer
\* side or waits for it (writers are preferred); the writer side while no
\* task holds the reader side and no other task holds the writer side.
ReaderFree(tasks, t) ==
    /\ Writers(tasks) \subseteq {t}
    /\ \A u \in DOMAIN tasks \ {t} : tasks[u].pc # "cleanup"
WriterFree(tasks, t) == Readers(tasks) = {} /\ Writers(tasks) \subseteq {t}

\* A detection phase that keeps the reader side while it goes on to repair.
ReaderExit_Keep(holds) == holds

\* Leaving "async with self._state_mutex.reader_lock"
ReaderExit(holds) == holds \ {"reader"}

\* load_data / copy_to_file: "async with self._state_mutex.reader_lock"
\* is entered.
ReaderEnter(t, op, name) ==
    /\ pend[t] = IdleTask
    /\ ReaderFree(pend, t)
    /\ pend' = [pend EXCEPT ![t] = Task(op, "reading", name, <<>>, <<>>, <<>>, {"reader"})]
    /\ UNCHANGED <<_db, _blob_directory, last, named, nodeVars, executorVars>>

\* load_data: the body under the reader lock and the exit of the block; the
\* call returns here unless a blob was missing.
LoadDataRead(t) ==
    /\ pend[t].op = "load_data" /\ pend[t].pc = "reading"
    /\ \E r \in {load_data(_db, _blob_directory, pend[t].name)} :
          IF r.disappeared = <<>>
          THEN /\ pend' = [pend EXCEPT ![t] = IdleTask]
               /\ last' = Call("load_data", pend[t].name, <<>>, NoError, r.all_data,
                               <<>>, None, {})
          ELSE /\ pend' = [pend EXCEPT ![t] =
                              Task("load_data", "cleanup", pend[t].name, <<>>,
                                   r.disappeared, r.all_data, ReaderExit(pend[t].holds))]
               /\ UNCHANGED last
    /\ UNCHANGED <<_db, _blob_directory, named, nodeVars, executorVars>>

\* copy_to_file: the body under the reader lock and the exit of the block;
\* the call ends here unless the blob was missing.
CopyToFileRead(t) ==
    /\ pend[t].op = "copy_to_file" /\ pend[t].pc = "reading"
    /\ \E r \in {copy_to_file(_db, _blob_directory, pend[t].name)} :
          IF r.missing_filename = None
          THEN /\ pend' = [pend EXCEPT ![t] = IdleTask]
               /\ last' = Call("copy_to_file", pend[t].name, <<>>, r.err, <<>>, <<>>,
                               None, {})
          ELSE /\ pend' = [pend EXCEPT ![t] =
                              Task("copy_to_file", "cleanup", pend[t].name, <<>>,
                                   <<r.missing_filename>>, <<>>,
                                   ReaderExit(pend[t].holds))]
               /\ UNCHANGED last
    /\ UNCHANGED <<_db, _blob_directory, named, nodeVars, executorVars>>

\* _cleanup: "async with self._state_mutex.writer_lock" is entered.
CleanupEnter(t) ==
    /\ pend[t].pc = "cleanup"
    /\ WriterFree(pend, t)
    /\ pend' = [pend EXCEPT ![t].pc = "cleaning", ![t].holds = @ \cup {"writer"}]
    /\ UNCHANGED <<_db, _blob_directory, last, named, nodeVars, executorVars>>

\* _cleanup: the removals and the exit of the block, then the end of the
\* call: load_data returns all_data, copy_to_file raises NoSuchNameError.
CleanupExit(t) ==
    /\ pend[t].pc = "cleaning"
    /\ _db' = _cleanup(_db, pend[t].disappeared)
    /\ last' = Call(pend[t].op, pend[t].name, <<>>,
                    IF pend[t].op = "copy_to_file"
                    THEN NoSuchNameError(pend[t].name) ELSE NoError,
                    pend[t].all_data, pend[t].disappeared, None, {})
    /\ pend' = [pend EXCEPT ![t] = IdleTask]
    /\ UNCHANGED <<_blob_directory, named, nodeVars, executorVars>>

\* A store that holds "d" and "da" with different bytes, nobody calling.
InitStorageLocks ==
    /\ \E r \in {StoreAll(<<>>, <<>>, << << <<"d">>, <<1>> >>, << <<"d", "a">>, <<>> >> >>)} :
          _db = r.db /\ _blob_directory = r.blobs
    /\ pend = [t \in Callers |-> IdleTask]
    /\ last = NoCall
    /\ named = <<>>
    /\ NoExecutor
    /\ node_type = DATASTORE
    /\ _broker_pending = None
    /\ _broker = None
    /\ d_in = NoBundle
    /\ d_pre = [broker_pending |-> None, broker |-> None]
    /\ d_out = <<>>
    /\ discovered_nodes = <<>>

\* Caller t, inside a method, takes its next step
StorageProgress(t) ==
    LoadDataRead(t) \/ CopyToFileRead(t) \/ CleanupEnter(t) \/ CleanupExit(t)

NextStorageLocks ==
    \/ \E t \in Callers, name \in Prefixes : ReaderEnter(t, "load_data", name)
    \/ \E t \in Callers, name \in Names : ReaderEnter(t, "copy_to_file", name)
    \/ \E t \in Callers : LoadDataRead(t)
    \/ \E t \in Callers : CopyToFileRead(t)
    \/ \E t \in Callers : CleanupEnter(t)
    \/ \E t \in Callers : CleanupExit(t)
    \/ \E filename \in Filenames : EnvDeleteBlob(filename)

\* Two callers reading a store whose blob files vanish behind its back.
SpecStorageLocks == InitStorageLocks /\ [][NextStorageLocks]_vars

\* Caller t is inside a method and its next step is not blocked
CanProgress(t) ==
    \/ pend[t].pc \in {"reading", "cleaning"}
    \/ pend[t].pc = "cleanup" /\ WriterFree(pend, t)

\* The same with every caller that is inside a method scheduled again.
FairSpecStorageLocks == SpecStorageLocks /\ \A t \in Callers : WF_pend(StorageProgress(t))

\* C31: load_data and copy_to_file never ask for the writer side of the
\* storage lock while they hold its reader side: the reader side is released
\* before _cleanup takes the writer side.  So callers inside a method are
\* never all blocked, and a read that found a blob missing returns.
C31_TwoPhaseRepair ==
    /\ [](\A t \in Callers :
             pend[t].pc \in {"cleanup", "cleaning"} => "reader" \notin pend[t].holds)
    /\ []((\E t \in Callers : pend[t] # IdleTask) =>
             \E t \in Callers : CanProgress(t))
    /\ \A t \in Callers : (pend[t].pc = "cleanup") ~> (pend[t] = IdleTask)

\* A load_data that found a blob missing has returned after its repair,
\* while the other caller was reading.
C31_Witness ==
    /\ last.op = "load_data"
    /\ last.disappeared # <<>>
    /\ pend["t1"] = IdleTask
    /\ pend["t2"].pc = "reading"

(***************************************************************************)
(* storage.py: store_data step by step                                     *)
(***************************************************************************)
CancelledError(name) == [type |-> "CancelledError", name |-> name]

\* A store_data that inserts the row first and leaves the blob for later.
StoreBlobStep_RowFirst(table, files, name, filename, data) ==
    [db |-> Insert(table, name, filename), blobs |-> files]

\* store_data, first step for a new blob: open(filepath, "wb") and write(data)
StoreBlobStep(table, files, name, filename, data) ==
    [db |-> table, blobs |-> WriteBlob(files, filename, data)]

\* store_data, second step: insert({"name": name, "filename": filename})
StoreRowStep(table, files, name, filename, data) ==
    [db |-> Insert(table, name, filename), blobs |-> files]

\* store_data: the writer lock is taken, the name is looked up and the blob
\* path is tested; a taken name raises and a known blob gets its row at once.
StoreEnter(t, name, data) ==
    /\ pend[t] = IdleTask
    /\ WriterFree(pend, t)
    /\ SearchName(_db, name) # <<>> \/ Len(_db) < MaxEntries
    /\ IF SearchName(_db, name) # <<>>
       THEN /\ last' = Call("store_data", name, data, NameTakenError(name), <<>>, <<>>,
                            None, {})
            /\ UNCHANGED <<_db, pend>>
       ELSE IF Sha1(data) \in DOMAIN _blob_directory
       THEN /\ _db' = StoreRowStep(_db, _blob_directory, name, Sha1(data), data).db
            /\ last' = Call("store_data", name, data, NoError, <<>>, <<>>, None, {})
            /\ UNCHANGED pend
       ELSE /\ pend' = [pend EXCEPT ![t] =
                           Task("store_data", "storing", name, data, <<>>, <<>>,
                                {"writer"})]
            /\ UNCHANGED <<_db, last>>
    /\ UNCHANGED <<_blob_directory, named, nodeVars, executorVars>>

\* store_data: the first step
StoreWriteBlob(t) ==
    /\ pend[t].op = "store_data" /\ pend[t].pc = "storing"
    /\ \E r \in {StoreBlobStep(_db, _blob_directory, pend[t].name, Sha1(pend[t].data),
                               pend[t].data)} :
          _db' = r.db /\ _blob_directory' = r.blobs
    /\ pend' = [pend EXCEPT ![t].pc = "inserting"]
    /\ UNCHANGED <<last, named, nodeVars, executorVars>>

\* store_data: the second step, the exit of the writer lock and the return
StoreInsertRow(t) ==
    /\ pend[t].op = "store_data" /\ pend[t].pc = "inserting"
    /\ \E r \in {StoreRowStep(_db, _blob_directory, pend[t].name, Sha1(pend[t].data),
                              pend[t].data)} :
          _db' = r.db /\ _blob_directory' = r.blobs
    /\ last' = Call("store_data", pend[t].name, pend[t].data, NoError, <<>>, <<>>,
                    None, {})
    /\ pend' = [pend EXCEPT ![t] = IdleTask]
    /\ UNCHANGED <<named, nodeVars, executorVars>>

\* store_data is cancelled between its two steps: the exception leaves the
\* "async with" block, which releases the writer lock.
StoreInterrupt(t) ==
    /\ pend[t].op = "store_data" /\ pend[t].pc = "inserting"
    /\ last' = Call("store_data", pend[t].name, pend[t].data,
                    CancelledError(pend[t].name), <<>>, <<>>, None, {})
    /\ pend' = [pend EXCEPT ![t] = IdleTask]
    /\ UNCHANGED <<_db, _blob_directory, named, nodeVars, executorVars>>

\* A fresh store, nobody calling.
InitStorageSteps ==
    /\ _db = <<>>
    /\ _blob_directory = <<>>
    /\ pend = [t \in Callers |-> IdleTask]
    /\ last = NoCall
    /\ named = <<>>
    /\ NoExecutor
    /\ node_type = DATASTORE
    /\ _broker_pending = None
    /\ _broker = None
    /\ d_in = NoBundle
    /\ d_pre = [broker_pending |-> None, broker |-> None]
    /\ d_out = <<>>
    /\ discovered_nodes = <<>>

\* Storage operations alone: nothing but the store touches the blob files.
\* A read that found a blob missing would stop at _cleanup.
NextStorageSteps ==
    \/ \E t \in Callers, name \in Names, data \in Bytes : StoreEnter(t, name, data)
    \/ \E t \in Callers : StoreWriteBlob(t)
    \/ \E t \in Callers : StoreInsertRow(t)
    \/ \E t \in Callers : StoreInterrupt(t)
    \/ \E t \in Callers, name \in Prefixes : ReaderEnter(t, "load_data", name)
    \/ \E t \in Callers, name \in Names : ReaderEnter(t, "copy_to_file", name)
    \/ \E t \in Callers : LoadDataRead(t)
    \/ \E t \in Callers : CopyToFileRead(t)

SpecStorageSteps == InitStorageSteps /\ [][NextStorageSteps]_vars

\* C33: with no outside deletion of blob files, every index row names a
\* blob file that exists, in every state, also inside a store_data and
\* after one that was interrupted between its two steps; and no read ever
\* finds a row whose blob is missing.
C33_NoPartialInsert ==
    /\ \A i \in DOMAIN _db : _db[i].filename \in DOMAIN _blob_directory
    /\ \A t \in Callers : pend[t].pc # "cleanup"

\* A store_data was interrupted after its blob was written: the blob is
\* there without a row, and a reader is at work.
C33_Witness ==
    /\ last.op = "store_data"
    /\ last.err.type = "CancelledError"
    /\ Sha1(last.data) \in DOMAIN _blob_directory
    /\ \A i \in DOMAIN _db : _db[i].filename # Sha1(last.data)
    /\ \E t \in Callers : pend[t].pc = "reading"

(***************************************************************************)
(* executor.py: the locks of the intake task and the scheduler task        *)
(***************************************************************************)
\* The three locks: Executor._job_ready_cv (an asyncio.Condition),
\* Node._state_mutex and Storage._state_mutex (both RWLock).
READY_CV == "ready_cv"
NODE_STATE == "node._state_mutex"
STORAGE_STATE == "storage._state_mutex"

\* One step of a task's code as far as locks go: acquire a lock ("acq", with
\* a reader, writer or exclusive mode), leave its block ("rel"), wait() or
\* notify_all() on the condition, or go on without a lock ("go"); next
\* holds the places the code can continue at, named by their source lines.
Instr(op, lock, mode, next) == [op |-> op, lock |-> lock, mode |-> mode, next |-> next]

\* Node._handle_discovery: the slots are set under the writer lock.
HandleDiscoveryProgram ==
    ("n127" :> Instr("acq", NODE_STATE, "writer", {"n149"}))
    @@ ("n149" :> Instr("rel", NODE_STATE, "writer", {"e70"}))

\* A _handle_job that notifies while it still holds the state lock.
HandleJobProgram_NotifyUnderStateLock ==
    ("j113" :> Instr("go", None, None, {"j114", "j115"}))
    @@ ("j114" :> Instr("acq", STORAGE_STATE, "writer", {"j114x"}))
    @@ ("j114x" :> Instr("rel", STORAGE_STATE, "writer", {"j113", "e70"}))
    @@ ("j115" :> Instr("acq", STORAGE_STATE, "reader", {"j115x"}))
    @@ ("j115x" :> Instr("rel", STORAGE_STATE, "reader", {"j117"}))
    @@ ("j117" :> Instr("acq", NODE_STATE, "writer", {"j119"}))
    @@ ("j119" :> Instr("acq", READY_CV, "exclusive", {"j120"}))
    @@ ("j120" :> Instr("notify", READY_CV, "exclusive", {"j120x"}))
    @@ ("j120x" :> Instr("rel", READY_CV, "exclusive", {"j118"}))
    @@ ("j118" :> Instr("rel", NODE_STATE, "writer", {"e70"}))

\* Executor._handle_job: store_data for each carried name (a taken name
\* raises and ends the handler), find_missing, the append under the state
\* writer lock, then notify_all under the condition.
HandleJobProgram ==
    ("j113" :> Instr("go", None, None, {"j114", "j115"}))
    @@ ("j114" :> Instr("acq", STORAGE_STATE, "writer", {"j114x"}))
    @@ ("j114x" :> Instr("rel", STORAGE_STATE, "writer", {"j113", "e70"}))
    @@ ("j115" :> Instr("acq", STORAGE_STATE, "reader", {"j115x"}))
    @@ ("j115x" :> Instr("rel", STORAGE_STATE, "reader", {"j117"}))
    @@ ("j117" :> Instr("acq", NODE_STATE, "writer", {"j118"}))
    @@ ("j118" :> Instr("rel", NODE_STATE, "writer", {"j119"}))
    @@ ("j119" :> Instr("acq", READY_CV, "exclusive", {"j120"}))
    @@ ("j120" :> Instr("notify", READY_CV, "exclusive", {"j120x"}))
    @@ ("j120x" :> Instr("rel", READY_CV, "exclusive", {"e70"}))

\* Executor._handle_data: store_data for each name, then notify_all.
HandleDataProgram ==
    ("d145" :> Instr("go", None, None, {"d146", "d148"}))
    @@ ("d146" :> Instr("acq", STORAGE_STATE, "writer", {"d146x"}))
    @@ ("d146x" :> Instr("rel", STORAGE_STATE, "writer", {"d145", "e70"}))
    @@ ("d148" :> Instr("acq", READY_CV, "exclusive", {"d149"}))
    @@ ("d149" :> Instr("notify", READY_CV, "exclusive", {"d149x"}))
    @@ ("d149x" :> Instr("rel", READY_CV, "exclusive", {"e70"}))

\* Executor._handle_bundles and _handle_bundle: sleep, fetch, and one
\* handler per bundle by its type.
IntakeProgram ==
    ("e70" :> Instr("go", None, None, {"e70", "n127", "j113", "d145"}))
    @@ HandleDiscoveryProgram @@ HandleJobProgram @@ HandleDataProgram

\* Executor._scheduler with _has_runnable_job, _pop_next_runnable_job,
\* _run_job (its copy_to_file calls, with _cleanup after a missing blob)
\* and _store_named_results.
SchedulerProgram ==
    ("s191" :> Instr("acq", READY_CV, "exclusive", {"s171"}))
    @@ ("s171" :> Instr("acq", NODE_STATE, "reader", {"s172"}))
    @@ ("s172" :> Instr("go", None, None, {"s163", "s174"}))
    @@ ("s163" :> Instr("acq", STORAGE_STATE, "reader", {"s163x"}))
    @@ ("s163x" :> Instr("rel", STORAGE_STATE, "reader", {"s172", "s174"}))
    @@ ("s174" :> Instr("rel", NODE_STATE, "reader", {"s193", "s194"}))
    @@ ("s193" :> Instr("wait", READY_CV, "exclusive", {"s193w"}))
    @@ ("s193w" :> Instr("wake", READY_CV, "exclusive", {"s171"}))
    @@ ("s194" :> Instr("rel", READY_CV, "exclusive", {"s178"}))
    @@ ("s178" :> Instr("acq", NODE_STATE, "writer", {"s179"}))
    @@ ("s179" :> Instr("go", None, None, {"p163", "s185"}))
    @@ ("p163" :> Instr("acq", STORAGE_STATE, "reader", {"p163x"}))
    @@ ("p163x" :> Instr("rel", STORAGE_STATE, "reader", {"s179", "s185"}))
    @@ ("s185" :> Instr("rel", NODE_STATE, "writer", {"s191", "s267"}))
    @@ ("s267" :> Instr("acq", NODE_STATE, "writer", {"s270"}))
    @@ ("s270" :> Instr("go", None, None, {"c175", "s272"}))
    @@ ("c175" :> Instr("acq", STORAGE_STATE, "reader", {"c189"}))
    @@ ("c189" :> Instr("rel", STORAGE_STATE, "reader", {"s270", "c202"}))
    @@ ("c202" :> Instr("acq", STORAGE_STATE, "writer", {"c205"}))
    @@ ("c205" :> Instr("rel", STORAGE_STATE, "writer", {"s272"}))
    @@ ("s272" :> Instr("rel", NODE_STATE, "writer", {"s241", "s209"}))
    @@ ("s241" :> Instr("acq", STORAGE_STATE, "writer", {"s241x"}))
    @@ ("s241x" :> Instr("rel", STORAGE_STATE, "writer", {"s241", "s209"}))
    @@ ("s209" :> Instr("acq", READY_CV, "exclusive", {"s210"}))
    @@ ("s210" :> Instr("notify", READY_CV, "exclusive", {"s210x"}))
    @@ ("s210x" :> Instr("rel", READY_CV, "exclusive", {"s191"}))

\* Executor.run: the two tasks of the TaskGroup.
ExecutorTasks == {"_handle_bundles", "_scheduler"}
Program(t) == IF t = "_scheduler" THEN SchedulerProgram ELSE IntakeProgram

\* A task: where it stands, the locks it holds in the order it took them,
\* and whether it was notified since it began to wait.
LockTask(pc, holds, woken) == [pc |-> pc, holds |-> holds, woken |-> woken]
HeldBy(tasks, t) == {tasks[t].holds[i] : i \in DOMAIN tasks[t].holds}
At(t) == Program(t)[pend[t].pc]

\* A lock can be taken in a mode: a reader side while no other task holds
\* the writer side, a writer side or a condition while no other task holds
\* the lock at all, and never a lock the task holds already.
CanAcquire(tasks, t, lock, mode) ==
    /\ \A h \in HeldBy(tasks, t) : h[1] # lock
    /\ \A u \in DOMAIN tasks \ {t} : \A h \in HeldBy(tasks, u) :
          h[1] = lock => (mode = "reader" /\ h[2] = "reader")

Release(holds, lock) == SelectSeq(holds, LAMBDA h : h[1] # lock)

lockOthers == <<_db, _blob_directory, last, named, nodeVars, executorVars>>

\* "async with lock" is entered
LockAcquire(t) ==
    /\ At(t).op = "acq"
    /\ CanAcquire(pend, t, At(t).lock, At(t).mode)
    /\ \E next \in At(t).next :
          pend' = [pend EXCEPT ![t] = LockTask(next, Append(@.holds, <<At(t).lock, At(t).mode>>),
                                               @.woken)]
    /\ UNCHANGED lockOthers

\* "async with lock" is left, by its end, a return or an exception
LockRelease(t) ==
    /\ At(t).op = "rel"
    /\ \E next \in At(t).next :
          pend' = [pend EXCEPT ![t] = LockTask(next, Release(@.holds, At(t).lock), @.woken)]
    /\ UNCHANGED lockOthers

\* Condition.wait(): the condition is released and the task waits
CvWait(t) ==
    /\ At(t).op = "wait"
    /\ \E next \in At(t).next :
          pend' = [pend EXCEPT ![t] = LockTask(next, Release(@.holds, READY_CV), FALSE)]
    /\ UNCHANGED lockOthers

\* Condition.wait() returns: the task was notified and holds the condition again
CvWake(t) ==
    /\ At(t).op = "wake"
    /\ pend[t].woken
    /\ CanAcquire(pend, t, READY_CV, "exclusive")
    /\ \E next \in At(t).next :
          pend' = [pend EXCEPT ![t] = LockTask(next, Append(@.holds, <<READY_CV, "exclusive">>),
                                               FALSE)]
    /\ UNCHANGED lockOthers

\* Condition.notify_all(): every waiting task is woken
CvNotifyAll(t) ==
    /\ At(t).op = "notify"
    /\ \E next \in At(t).next :
          pend' = [u \in DOMAIN pend |->
                     IF u = t THEN LockTask(next, pend[t].holds, pend[t].woken)
                     ELSE LockTask(pend[u].pc, pend[u].holds,
                                   pend[u].woken \/ Program(u)[pend[u].pc].op = "wake")]
    /\ UNCHANGED lockOthers

\* Code between two lock operations: a loop test, a branch, a sleep
GoOn(t) ==
    /\ At(t).op = "go"
    /\ \E next \in At(t).next : pend' = [pend EXCEPT ![t].pc = next]
    /\ UNCHANGED lockOthers

\* Both tasks at the top of their loops, no lock held.
InitExecutorLocks ==
    /\ pend = ("_handle_bundles" :> LockTask("e70", <<>>, FALSE))
               @@ ("_scheduler" :> LockTask("s191", <<>>, FALSE))
    /\ _db = <<>>
    /\ _blob_directory = <<>>
    /\ last = NoCall
    /\ named = <<>>
    /\ NoExecutor
    /\ node_type = EXECUTOR
    /\ _broker_pending = None
    /\ _broker = None
    /\ d_in = NoBundle
    /\ d_pre = [broker_pending |-> None, broker |-> None]
    /\ d_out = <<>>
    /\ discovered_nodes = <<>>

NextExecutorLocks ==
    \/ \E t \in ExecutorTasks : LockAcquire(t)
    \/ \E t \in ExecutorTasks : LockRelease(t)
    \/ \E t \in ExecutorTasks : CvWait(t)
    \/ \E t \in ExecutorTasks : CvWake(t)
    \/ \E t \in ExecutorTasks : CvNotifyAll(t)
    \/ \E t \in ExecutorTasks : GoOn(t)

SpecExecutorLocks == InitExecutorLocks /\ [][NextExecutorLocks]_vars

\* The nesting order of the locks
LockRank(lock) == IF lock = READY_CV THEN 1 ELSE IF lock = NODE_STATE THEN 2 ELSE 3

\* Task t waits for a lock that another task holds
LockBlocked(t) ==
    \/ At(t).op = "acq" /\ ~CanAcquire(pend, t, At(t).lock, At(t).mode)
    \/ At(t).op = "wake" /\ pend[t].woken /\ ~CanAcquire(pend, t, READY_CV, "exclusive")

\* C32: no task asks for the node state lock or the ready condition while
\* it holds the storage lock; the locks a task holds were taken in the
\* order ready_cv, node state lock, storage lock; and the intake task and
\* the scheduler task never wait for each other's locks at the same time.
C32_LockOrdering ==
    /\ \A t \in ExecutorTasks :
          (At(t).op \in {"acq", "wake"} /\ At(t).lock \in {READY_CV, NODE_STATE})
             => \A h \in HeldBy(pend, t) : h[1] # STORAGE_STATE
    /\ \A t \in ExecutorTasks : \A i, j \in DOMAIN pend[t].holds :
          i < j => LockRank(pend[t].holds[i][1]) < LockRank(pend[t].holds[j][1])
    /\ \A t \in ExecutorTasks :
          At(t).op = "acq" => \A h \in HeldBy(pend, t) : LockRank(h[1]) < LockRank(At(t).lock)
    /\ ~(\A t \in ExecutorTasks : LockBlocked(t))

\* The scheduler holds all three locks, in order, while the intake task
\* waits for the storage lock.
C32_Witness ==
    /\ Len(pend["_scheduler"].holds) = 3
    /\ pend["_handle_bundles"].pc = "j114"
    /\ LockBlocked("_handle_bundles")

(***************************************************************************)
(* Properties of the bundles a finished job sends                          *)
(***************************************************************************)
OfType(bundles, type) == SelectSeq(bundles, LAMBDA bundle : bundle.type = type)

\* What the run step of the scheduler sends for the job it holds, dtnd
\* accepting the bundles: JOB_RESULT bundles are sent exactly when the job
\* names a receiver and ran and was collected without error, then one
\* bundle, to the receiver, carrying the ZIP; a failed job sends nothing.
ResultsSentFor(outcome) ==
    LET job == sched.job.info
        r == RunJobExecute(fs, job, JobDir(sched.job.id), outcome)
        results == OfType(e_last'.sent, JOB_RESULT)
    IN  /\ results # <<>> <=> (job.results_receiver # None /\ r.err = NoError)
        /\ Len(results) <= 1
        /\ results # <<>> =>
              /\ results[1].destination = job.results_receiver
              /\ results[1].payload = r.results.data
              /\ results[1].payload[1] = "zip"
        /\ r.err # NoError => e_last'.sent = <<>>

\* A job whose sandbox could not be set up sends nothing.
SetupFailureSendsNothing ==
    (sched.pc = "prepare" /\ sched'.pc = "finally") => e_last'.sent = <<>>

\* C34 as the spec has it: a JOB_RESULT is sent iff the job has a
\* results_receiver and was prepared, run and collected without error, then
\* one bundle to the receiver with the ZIP; and a job without a receiver,
\* like a job that trapped or failed to set up, sends no JOB_RESULT and
\* publishes no named result.
C34_ResultSentIffReceiver ==
    [][/\ SetupFailureSendsNothing
       /\ \A outcome \in ModuleOutcomes :
             SchedulerRun(outcome, TRUE) =>
                 /\ ResultsSentFor(outcome)
                 /\ sched.job.info.results_receiver = None =>
                       OfType(e_last'.sent, NDATA_PUT) = <<>>]_vars

\* C34, without its last clause for jobs that name no receiver: a
\* JOB_RESULT is sent iff the job has a results_receiver and was prepared,
\* run and collected without error, then one bundle to the receiver with the
\* ZIP (also an empty one); a job that trapped or failed to set up sends
\* neither a JOB_RESULT nor a named result.
C34_ResultSentIffReceiverAndSuccess ==
    [][/\ SetupFailureSendsNothing
       /\ \A outcome \in ModuleOutcomes :
             SchedulerRun(outcome, TRUE) => ResultsSentFor(outcome)]_vars

\* A job with a receiver has run and none of its result paths existed: the
\* JOB_RESULT sent carries an empty ZIP.
C34_Witness ==
    /\ e_last.op = "run"
    /\ \E i \in DOMAIN e_last.sent :
          /\ e_last.sent[i].type = JOB_RESULT
          /\ e_last.sent[i].destination = ClientEID
          /\ e_last.sent[i].payload = ZipBytes({})

(***************************************************************************)
(* Properties of the association over a node's lifetime                    *)
(***************************************************************************)
\* C35: the two slots of a non-broker node are never both set: the node is
\* in (none, none), in (X, none) or in (none, X) for an EID X.
C35_SlotsExclusive ==
    /\ ~(_broker_pending # None /\ _broker # None)
    /\ \/ Slots(_broker_pending, _broker) = Slots(None, None)
       \/ _broker_pending \in SourceEIDs /\ _broker = None
       \/ _broker_pending = None /\ _broker \in SourceEIDs

\* A datastore, started with both slots empty, has gone from (X, none) to
\* (none, X) by the ack of X.
C35_Witness ==
    /\ node_type = DATASTORE
    /\ d_in.type = BROKER_ACK
    /\ d_pre = Slots(d_in.source, None)
    /\ Slots(_broker_pending, _broker) = Slots(None, d_in.source)

\* C36: a BROKER_REQUEST is returned only by the handling of an
\* announcement in (none, none), it is one bundle, to the announcer, and
\* the node leaves (none, none) with it for good, so a node returns at most
\* one request in its lifetime, to the first broker whose announcement it
\* handled; and from (X, none) the only step that changes the slots is the
\* handling of BROKER_ACK from X, which leads to (none, X): nothing else
\* ends the wait.
C36_OneRequestNoRetry ==
    [][/\ d_out' # <<>> =>
             /\ Slots(_broker_pending, _broker) = Slots(None, None)
             /\ d_in'.type = BROKER_ANNOUNCE
             /\ d_out' = <<BundleData(BROKER_REQUEST, node_id, d_in'.source, node_type)>>
             /\ Slots(_broker_pending', _broker') = Slots(d_in'.source, None)
       /\ Slots(_broker_pending, _broker) # Slots(None, None) =>
             /\ Slots(_broker_pending', _broker') # Slots(None, None)
             /\ d_out' = <<>>
       /\ (_broker_pending # None /\ _broker = None) =>
             \/ Slots(_broker_pending', _broker') = Slots(_broker_pending, None)
             \/ /\ d_in' = BundleData(BROKER_ACK, _broker_pending, d_in'.destination,
                                      d_in'.node_type)
                /\ Slots(_broker_pending', _broker') = Slots(None, _broker_pending)]_vars

\* A node waiting for the ack of X has handled the announcement of another
\* broker and still waits for X.
C36_Witness ==
    /\ d_in.type = BROKER_ANNOUNCE
    /\ d_pre.broker_pending \in BrokerEIDs
    /\ d_in.source \in BrokerEIDs \ {d_pre.broker_pending}
    /\ Slots(_broker_pending, _broker) = Slots(d_pre.broker_pending, None)
    /\ d_out = <<>>

(***************************************************************************)
(* Properties of the pending queue over the Executor's lifetime            *)
(***************************************************************************)
PendingIds(pending) == {pending[i].id : i \in DOMAIN pending}

\* The job the scheduler holds, from its pop to the end of its finally clause
Running == IF sched.job = NoJob THEN {} ELSE {sched.job.id}

\* C37, in a state: no job is in the pending queue twice, and the job
\* being run is not in the queue.
JobsApart ==
    /\ \A i, j \in DOMAIN _pending_jobs :
          _pending_jobs[i].id = _pending_jobs[j].id => i = j
    /\ Running \cap PendingIds(_pending_jobs) = {}

\* C37, in a step: a job enters the queue only by its admission, as a new
\* job; a job leaves the queue only by being popped, into the scheduler's
\* hands, once; an admitted job is in the queue; whatever rotation the pop
\* makes, the other jobs stay in the queue; and the scheduler lets go of a
\* job only at the end of its round.
JobsConserved ==
    /\ PendingIds(_pending_jobs') \ PendingIds(_pending_jobs) \subseteq
          {id \in {e_last'.job.id} : e_last'.op = "handle_job" /\ id = handled + 1
                                      /\ handled' = id}
    /\ (e_last'.op = "handle_job" /\ e_last'.err = NoError) =>
          /\ e_last'.job.id \in PendingIds(_pending_jobs')
          /\ PendingIds(_pending_jobs) \subseteq PendingIds(_pending_jobs')
    /\ PendingIds(_pending_jobs) \ PendingIds(_pending_jobs') \subseteq
          {id \in {sched'.job.id} : sched.pc = "pop" /\ sched.job = NoJob}
    /\ Len(_pending_jobs') = Cardinality(PendingIds(_pending_jobs'))
    /\ sched.job # NoJob =>
          \/ sched'.job = sched.job
          \/ sched.pc = "finally" /\ sched'.job = NoJob
    /\ sched'.job # NoJob /\ sched.job = NoJob =>
          sched'.job.id \in PendingIds(_pending_jobs)

\* C37: every admitted job is in the pending queue exactly once, or in the
\* scheduler's hands, or done with; it is started at most once and never
\* appended again after it was popped; an admission and a rotating pop
\* neither lose nor duplicate a job.
C37_JobConservation == []JobsApart /\ [][JobsConserved]_vars

\* A pop has rotated one job to the tail and taken another, and a third
\* job was admitted behind them while the job runs.
C37_Witness ==
    /\ sched.pc \in {"prepare", "run"}
    /\ Len(_pending_jobs) = 2
    /\ _pending_jobs[1].id < sched.job.id
    /\ _pending_jobs[2].id > sched.job.id
    /\ e_last.op = "handle_job"

\* A pending job that names data the local store does not hold
MissingInputs(table, job) == find_missing(table, required_named_data(job.info))

\* C38: an NDATA_GET bundle is returned only by the handling of a
\* JOB_SUBMIT, one bundle to the datastore group naming what the admitted
\* job misses; no scheduler step sends one, so nothing is asked for a second
\* time; and a pending job stays in the queue, not started, over every step
\* after which the store still lacks one of its inputs.
C38_RequestOnlyAtAdmission ==
    /\ [](\A i \in DOMAIN e_last.sent :
             e_last.sent[i].type = NDATA_GET =>
                /\ e_last.op = "handle_job"
                /\ e_last.sent = <<DataBundle(NDATA_GET, node_id, DATASTORE_MULTICAST_ADDRESS,
                                              <<>>, e_last.sent[i].named_data)>>
                /\ e_last.sent[i].named_data # {}
                /\ e_last.sent[i].named_data \subseteq required_named_data(e_last.job.info))
    /\ [][\A i \in DOMAIN _pending_jobs :
             MissingInputs(_db', _pending_jobs[i]) # {} =>
                /\ _pending_jobs[i].id \in PendingIds(_pending_jobs')
                /\ sched'.job # _pending_jobs[i]]_vars

\* The scheduler has tested its predicate and waits while a job is pending
\* whose input was asked for at its admission and has not arrived.
C38_Witness ==
    /\ sched.pc = "wait"
    /\ e_last.op = "check"
    /\ handled > 1
    /\ \E i \in DOMAIN _pending_jobs : InputName \in MissingInputs(_db, _pending_jobs[i])

(***************************************************************************)
(* executor.py: one round of the intake loop                               *)
(***************************************************************************)
\* Bundles as dtnd hands them over: a JOB_SUBMIT with its unpacked Job, an
\* NDATA_GET reply with names and payload, a BROKER_ACK nobody waits for.
SubmitBundle(job) == [type |-> JOB_SUBMIT, job |-> job]
NamedDataBundle(named_data, payload) ==
    [type |-> NDATA_GET, named_data |-> named_data, payload |-> payload]
AckBundle == [type |-> BROKER_ACK, source |-> "dtn://b1/"]

\* What the intake task works on: the local store, the pending queue, the
\* identity of the next JobInfo, whether _job_ready_cv was notified, the
\* bundles handed to dtnd and the exception that is on its way up.
Intake(db, blobs, pending, next_id, notified, sent, err) ==
    [db |-> db, blobs |-> blobs, pending |-> pending, next_id |-> next_id,
     notified |-> notified, sent |-> sent, err |-> err]

\* Executor._handle_bundle for one bundle
HandleBundleOf(st, bundle) ==
    IF bundle.type = JOB_SUBMIT
    THEN LET stored == StoreAll(st.db, st.blobs, bundle.job.data)
             missing == find_missing(stored.db, required_named_data(bundle.job.metadata))
         IN  IF stored.err # NoError
             THEN Intake(stored.db, stored.blobs, st.pending, st.next_id + 1,
                         st.notified, st.sent, stored.err)
             ELSE Intake(stored.db, stored.blobs,
                         Append(st.pending, QueuedJob(st.next_id, bundle.job.metadata)),
                         st.next_id + 1, TRUE,
                         IF missing # {}
                         THEN Append(st.sent,
                                     DataBundle(NDATA_GET, node_id,
                                                DATASTORE_MULTICAST_ADDRESS, <<>>, missing))
                         ELSE st.sent,
                         NoError)
    ELSE IF bundle.type = NDATA_GET
    THEN LET stored == StoreAll(st.db, st.blobs,
                                [i \in DOMAIN bundle.named_data |->
                                    <<bundle.named_data[i], bundle.payload>>])
         IN  Intake(stored.db, stored.blobs, st.pending, st.next_id + 1,
                    st.notified \/ stored.err = NoError, st.sent, stored.err)
    ELSE Intake(st.db, st.blobs, st.pending, st.next_id + 1, st.notified, st.sent, NoError)

\* A loop with the try statement around each bundle instead of the batch.
RECURSIVE HandleBatch_TryPerBundle(_, _, _)
HandleBatch_TryPerBundle(st, bundles, k) ==
    IF k > Len(bundles) THEN [st |-> st, handled |-> k - 1]
    ELSE LET r == HandleBundleOf(st, bundles[k]) IN
         IF r.err # NoError /\ k = Len(bundles)
         THEN [st |-> r, handled |-> k]
         ELSE HandleBatch_TryPerBundle([r EXCEPT !.err = NoError], bundles, k + 1)

\* Executor._handle_bundles: "for bundle in bundles" inside the try
\* statement, from bundle k on; an exception leaves the loop.
RECURSIVE HandleBatch(_, _, _)
HandleBatch(st, bundles, k) ==
    IF k > Len(bundles) THEN [st |-> st, handled |-> k - 1]
    ELSE LET r == HandleBundleOf(st, bundles[k]) IN
         IF r.err # NoError
         THEN [st |-> r, handled |-> k]
         ELSE HandleBatch(r, bundles, k + 1)

\* The bundles one fetch may return
MaxBatch == 2
IntakeBundles ==
    {SubmitBundle(JobCarrying), SubmitBundle(JobNeeding),
     NamedDataBundle(<<InputName>>, <<>>), AckBundle}
Batches == UNION {[1..n -> IntakeBundles] : n \in 0..MaxBatch}

\* The record of a round: the batch fetched, how many of its bundles were
\* handled, the exception logged (if any), what was sent.
Round(bundles, count, err, notified, sent) ==
    [op |-> "handle_bundles", bundles |-> bundles, handled |-> count, err |-> err,
     notified |-> notified, sent |-> sent]

\* Executor._handle_bundles: one round of its loop, from the sleep to the
\* end of the try statement, for the batch dtnd returns.
IntakeRound(bundles) ==
    /\ handled < MaxBundles
    /\ \E r \in {HandleBatch(Intake(_db, _blob_directory, _pending_jobs, handled + 1,
                                    FALSE, <<>>, NoError), bundles, 1)} :
          /\ _db' = r.st.db
          /\ _blob_directory' = r.st.blobs
          /\ _pending_jobs' = r.st.pending
          /\ handled' = handled + r.handled
          /\ sched' = IF r.st.notified THEN notify_all(sched) ELSE sched
          /\ e_last' = Round(bundles, r.handled, r.st.err, r.st.notified, r.st.sent)
    /\ UNCHANGED <<fs, pend, last, named, nodeVars>>

NextIntake == \E bundles \in Batches : IntakeRound(bundles)

\* The intake task of an Executor, round after round.
SpecIntake == InitExecutor /\ [][NextIntake]_vars

\* The state after each of the first n bundles was handled in list order
RECURSIVE AfterHandling(_, _, _)
AfterHandling(st, bundles, n) ==
    IF n = 0 THEN st
    ELSE HandleBundleOf([AfterHandling(st, bundles, n - 1) EXCEPT !.err = NoError],
                        bundles[n])

\* The bundles of the batch whose handling raises when its turn comes
Raising(st, bundles) ==
    {k \in DOMAIN bundles :
        /\ AfterHandling(st, bundles, k).err # NoError
        /\ \A j \in 1..(k - 1) : AfterHandling(st, bundles, j).err = NoError}

\* C39: the bundles of a fetch are handled in list order; when the
\* handling of bundle k raises, the round ends with bundles 1..k handled
\* and none of the later ones, and with that error logged; without a raise
\* all are handled; and every round, also one that follows a failed round,
\* is a round of this kind.
C39_BatchStopsAtFirstError ==
    [][\A bundles \in {e_last'.bundles} :
          IntakeRound(bundles) =>
             LET st == Intake(_db, _blob_directory, _pending_jobs, handled + 1, FALSE,
                              <<>>, NoError)
                 raising == Raising(st, bundles)
                 count == IF raising = {} THEN Len(bundles)
                          ELSE CHOOSE k \in raising : TRUE
                 end == AfterHandling(st, bundles, count)
             IN  /\ e_last'.handled = count
                 /\ handled' = handled + count
                 /\ e_last'.err = end.err
                 /\ raising # {} <=> e_last'.err # NoError
                 /\ _db' = end.db
                 /\ _blob_directory' = end.blobs
                 /\ _pending_jobs' = end.pending
                 /\ e_last'.sent = end.sent]_vars

\* A round after an earlier round: its first bundle raised NameTakenError,
\* its second bundle, a job, was not admitted.
C39_Witness ==
    /\ e_last.op = "handle_bundles"
    /\ handled > e_last.handled
    /\ Len(e_last.bundles) = 2
    /\ e_last.handled = 1
    /\ e_last.err.type = "NameTakenError"
    /\ e_last.bundles[2].type = JOB_SUBMIT
    /\ _pending_jobs # <<>>
    /\ \A i \in DOMAIN _pending_jobs : _pending_jobs[i].id < handled

(***************************************************************************)
(* executor.py: the intake task and the scheduler task around              *)
(* _job_ready_cv, step by step                                             *)
(***************************************************************************)
\* The intake task: where it stands in a handler, and the bundle it handles
IntakeTask(pc, bundle) == [pc |-> pc, bundle |-> bundle]
IntakeIdle == IntakeTask("idle", AckBundle)

\* The (name, data) pairs a handler gives to store_data, in order
StoredBy(bundle) ==
    IF bundle.type = JOB_SUBMIT THEN bundle.job.data
    ELSE [i \in DOMAIN bundle.named_data |-> <<bundle.named_data[i], bundle.payload>>]

\* The bundles handed to the intake task: a job that carries nothing and
\* needs "b" and "da", and named data in one or two names.
WakeupBundles ==
    {SubmitBundle(JobNeeding)}
        \cup {NamedDataBundle(item[1], item[2]) : item \in DeliveredData}

\* The capabilities of the system, the same at every look
Unchanged(pending) == [i \in 1..Len(pending) |-> Capabilities(1, 1, 1, 1)]

\* The scheduler holds _job_ready_cv from "async with" to wait() or to the
\* end of the block.
CvHeldByScheduler == sched.pc \in {"check", "decided"}

\* Condition.notify_all(), for a scheduler that says whether it was woken
WakeAll(s) == IF s.pc = "wait" THEN Scheduler("notified", s.job) ELSE s

\* _handle_bundles takes the next bundle
WakeupFetch(bundle) ==
    /\ pend.pc = "idle"
    /\ handled < MaxBundles
    /\ handled' = handled + 1
    /\ pend' = IntakeTask("store", bundle)
    /\ e_last' = Step("fetch", NoJob, NoError, FALSE, <<>>, NoSystem, NoResults, <<>>, <<>>)
    /\ UNCHANGED <<_db, _blob_directory, _pending_jobs, sched, fs, last, named, nodeVars>>

\* _handle_job / _handle_data: the store_data calls; an exception ends the
\* handler with what was stored so far.
WakeupStore ==
    /\ pend.pc = "store"
    /\ \E stored \in {StoreAll(_db, _blob_directory, StoredBy(pend.bundle))} :
          /\ _db' = stored.db
          /\ _blob_directory' = stored.blobs
          /\ pend' = IF stored.err # NoError THEN IntakeIdle
                     ELSE IntakeTask(IF pend.bundle.type = JOB_SUBMIT THEN "append"
                                     ELSE "notify", pend.bundle)
          /\ e_last' = Step("store", NoJob, stored.err, FALSE, <<>>, NoSystem, NoResults,
                            <<>>, <<>>)
    /\ UNCHANGED <<_pending_jobs, sched, fs, handled, last, named, nodeVars>>

\* _handle_job: the append under the state writer lock
WakeupAppend ==
    /\ pend.pc = "append"
    /\ _pending_jobs' = Append(_pending_jobs, QueuedJob(handled, pend.bundle.job.metadata))
    /\ pend' = IntakeTask("notify", pend.bundle)
    /\ e_last' = Step("append", NoJob, NoError, FALSE, <<>>, NoSystem, NoResults, <<>>, <<>>)
    /\ UNCHANGED <<_db, _blob_directory, sched, fs, handled, last, named, nodeVars>>

\* _handle_job / _handle_data: "async with self._job_ready_cv: notify_all()"
WakeupNotify ==
    /\ pend.pc = "notify"
    /\ ~CvHeldByScheduler
    /\ sched' = WakeAll(sched)
    /\ pend' = IntakeIdle
    /\ e_last' = Step("notify", NoJob, NoError, TRUE, <<>>, NoSystem, NoResults, <<>>, <<>>)
    /\ UNCHANGED <<_db, _blob_directory, _pending_jobs, fs, handled, last, named, nodeVars>>

\* _scheduler: "async with self._job_ready_cv" is entered, or wait()
\* returns with the condition held again
SchedAcquire ==
    /\ sched.pc \in {"start", "notified"}
    /\ sched' = Scheduler("check", NoJob)
    /\ e_last' = Step("acquire", NoJob, NoError, FALSE, <<>>, NoSystem, NoResults, <<>>, <<>>)
    /\ UNCHANGED <<_db, _blob_directory, _pending_jobs, pend, fs, handled, last, named,
                   nodeVars>>

\* _scheduler: "while not await self._has_runnable_job()"
SchedPredicate ==
    /\ sched.pc = "check"
    /\ sched' = IF _has_runnable_job(_pending_jobs, _db, Unchanged(_pending_jobs))
                THEN Scheduler("pop", NoJob) ELSE Scheduler("decided", NoJob)
    /\ e_last' = Step("check", NoJob, NoError, FALSE, <<>>, NoSystem, NoResults, <<>>, <<>>)
    /\ UNCHANGED <<_db, _blob_directory, _pending_jobs, pend, fs, handled, last, named,
                   nodeVars>>

\* _scheduler: "await self._job_ready_cv.wait()" releases the condition
SchedWait ==
    /\ sched.pc = "decided"
    /\ sched' = Scheduler("wait", NoJob)
    /\ e_last' = Step("wait", NoJob, NoError, FALSE, <<>>, NoSystem, NoResults, <<>>, <<>>)
    /\ UNCHANGED <<_db, _blob_directory, _pending_jobs, pend, fs, handled, last, named,
                   nodeVars>>

\* _scheduler: _pop_next_runnable_job
SchedPop ==
    /\ sched.pc = "pop"
    /\ \E r \in {_pop_next_runnable_job(_pending_jobs, _db, Unchanged(_pending_jobs))} :
          /\ _pending_jobs' = r.pending
          /\ sched' = IF r.job = NoJob THEN Scheduler("start", NoJob)
                      ELSE Scheduler("finally", r.job)
          /\ e_last' = Step("pop", r.job, NoError, FALSE, <<>>, r.system, NoResults,
                            <<>>, <<>>)
    /\ UNCHANGED <<_db, _blob_directory, pend, fs, handled, last, named, nodeVars>>

\* _scheduler: the job has been run (its results are left out here); the
\* finally clause notifies and the loop starts again.
SchedFinally ==
    /\ sched.pc = "finally"
    /\ sched' = Scheduler("start", NoJob)
    /\ e_last' = Step("finally", sched.job, NoError, TRUE, <<>>, NoSystem, NoResults,
                      <<>>, <<>>)
    /\ UNCHANGED <<_db, _blob_directory, _pending_jobs, pend, fs, handled, last, named,
                   nodeVars>>

InitWakeup ==
    /\ _db = <<>>
    /\ _blob_directory = <<>>
    /\ pend = IntakeIdle
    /\ last = NoCall
    /\ named = <<>>
    /\ _pending_jobs = <<>>
    /\ sched = Scheduler("start", NoJob)
    /\ fs = (_root_dir :> Dir)
    /\ handled = 0
    /\ e_last = NoStep
    /\ node_type = EXECUTOR
    /\ _broker_pending = None
    /\ _broker = None
    /\ d_in = NoBundle
    /\ d_pre = [broker_pending |-> None, broker |-> None]
    /\ d_out = <<>>
    /\ discovered_nodes = <<>>

NextWakeup ==
    \/ \E bundle \in WakeupBundles : WakeupFetch(bundle)
    \/ WakeupStore
    \/ WakeupAppend
    \/ WakeupNotify
    \/ SchedAcquire
    \/ SchedPredicate
    \/ SchedWait
    \/ SchedPop
    \/ SchedFinally

\* The two tasks of an Executor, interleaved at every await between the
\* store, the append, the notify, the predicate and the wait.
SpecWakeup == InitWakeup /\ [][NextWakeup]_vars

\* A pending job has all its inputs in the local store
SomeJobRunnable ==
    \E i \in DOMAIN _pending_jobs : _job_has_all_inputs(_db, _pending_jobs[i].info)

\* C40: the scheduler is never blocked in wait() with a pending job
\* runnable (the capabilities being what they were) unless a handler of the
\* intake task is on its way to its notify.
C40_NoLostWakeup ==
    (sched.pc = "wait" /\ SomeJobRunnable) => pend.pc \in {"append", "notify"}

====
